---- MODULE Spec2Model ----
(***************************************************************************)
(* Model of the anime-quote-analyzer backend: the grammar pattern detector *)
(* (grammar_detector.py), the JLPT classifier (jlpt_classifier.py) and the *)
(* vocabulary extractor (analyzer.py).                                     *)
(*                                                                         *)
(* A Python string is a sequence of characters.  Each Japanese character   *)
(* is written by its romanised name: "te" is the hiragana te, "de" the     *)
(* hiragana de, "ya_s" and "yo_s" the small ya and small yo, "kanji" a     *)
(* character of the CJK block, "kata" a katakana character, "maru" the     *)
(* ideographic full stop (outside the three script ranges).                *)
(***************************************************************************)
EXTENDS Integers, Sequences, FiniteSets, TLC

VARIABLES
    text,        \* detect_patterns / detect_particles: the argument text
    tokens,      \* detect_patterns / detect_particles: the argument tokens
    gpc,         \* which grammar entry point has run: "start", "patterns", "particles"
    detected,    \* the list the entry point returned
    jlpt_file,   \* data/jlpt_vocab.json: [status, data]
    jlpt_vocab,  \* jlpt_classifier._jlpt_vocab, the table loaded so far
    cw_log,      \* the calls of classify_word so far: [word, tier]
    vtokens,     \* extract_vocabulary: the argument tokens
    ev,          \* extract_vocabulary: [called, raised, vocabulary]
    cs_tokens,   \* classify_sentence: the argument tokens
    cs_vocab,    \* classify_sentence: the argument vocabulary
    cs_ret,      \* classify_sentence: [called, level]
    tr_cache,    \* translator._translation_cache
    tr_modified, \* translator._cache_modified
    tr_cache_file, \* data/translation_cache.json: [status, data]
    tr_vocab,    \* analyzer._vocab_dictionary
    tr_vocab_file, \* data/vocab_dictionary.json: [status, data]
    tr_key,      \* DEEPL_API_KEY is configured
    tr_log,      \* the calls of translate_to_french so far
    an_text,     \* analyze_text: the argument text
    an_tagger,   \* what the MeCab tagger does with an_text: [raises, words]
    an_ret,      \* analyze_text: [called, raised, result]
    ai_config,   \* ai_explainer: [openrouter_key, gemini_ready]
    ai_log,      \* the calls of _call_openrouter_api and _call_gemini_api so far
    pn_log,      \* the calls of is_proper_noun so far: [token, ret]
    ai_provider, \* ai_explainer.AI_PROVIDER
    ai_cache,    \* ai_explainer._cache_data, in insertion order: [key, data, timestamp]
    ai_now,      \* what datetime.now() reads, in hours
    ai_recency,  \* the cached keys from the least to the most recently used
    ai_last,     \* the last cache operation: [op, key, ret, before, asked, lru, at]
    gp_file,     \* data/grammar_patterns.json: [status, data]
    gp_patterns, \* grammar_detector._grammar_patterns, the list loaded so far
    ld_log,      \* the calls of the two loaders so far: [fn, opened, ret, cached]
    rc_heap,     \* the dict objects of the translation cache, by reference
    rc_global,   \* the object translator._translation_cache refers to
    rc_proc      \* two interleaved calls of translate_to_french: their locals

gvars == <<text, tokens, gpc, detected>>
cvars == <<jlpt_file, jlpt_vocab, cw_log>>
vvars == <<vtokens, ev>>
svars == <<cs_tokens, cs_vocab, cs_ret>>
\* the variables of the components modelled after the vocabulary extractor
tvars == <<tr_cache, tr_modified, tr_cache_file, tr_vocab, tr_vocab_file, tr_key, tr_log>>
avars == <<an_text, an_tagger, an_ret>>
xvars == <<ai_config, ai_log>>
kvars == <<ai_provider, ai_cache, ai_now, ai_recency, ai_last>>
lvars == <<gp_file, gp_patterns, ld_log>>
\* the variables of the components modelled after the explanation cache
rvars == <<rc_heap, rc_global, rc_proc>>
yvars == <<lvars, rvars>>
zvars == <<pn_log, kvars, yvars>>
ovars == <<svars, tvars, avars, xvars, zvars>>
vars == <<gvars, cvars, vvars, ovars>>

----------------------------------------------------------------------------
(* Bounds of the model *)

\* size of an input of the grammar detector: the number of chunks its text is
\* assembled from plus the number of tokens of its token list
MaxInput == 3
\* number of calls of classify_word in one behaviour
MaxCalls == 2
\* number of tokens of an argument of extract_vocabulary
MaxVocabTokens == 2
\* number of entries of a vocabulary given to classify_sentence
MaxSentenceVocab == 4
\* number of tokens of a token list given to classify_sentence
MaxSentenceTokens == 20
\* number of calls of translate_to_french in one behaviour
MaxTranslateCalls == 2
\* number of chunks of a text given to analyze_text
MaxAnalyzeChunks == 2
\* number of words the tagger yields for a text
MaxTaggerWords == 1
\* the calls of the AI providers in one behaviour
MaxExplainerCalls == 2
\* the calls of is_proper_noun in one behaviour
MaxProperNounCalls == 2
\* the capacity of the explanation cache (CACHE_MAX_SIZE, 500 in the source),
\* scaled down so that the cache fills
CacheCapacity == 2
\* the last reading of the clock, in hours
MaxClock == 26
\* the calls of load_jlpt_data and load_grammar_patterns in one behaviour
MaxLoadCalls == 3

----------------------------------------------------------------------------
(* Strings *)

\* Python: p in t (substring test), and re.search of a literal pattern
\* p occurs in t at offset i (from 0)
OccursAt(t, p, i) ==
    /\ i + Len(p) <= Len(t)
    /\ SubSeq(t, i + 1, i + Len(p)) = p

Contains(t, p) == \E i \in 0..(Len(t) - Len(p)) : OccursAt(t, p, i)

\* re.search(r'a|b', t) and re.search(r'[xy]rest', t): a regex that is a
\* finite alternation of literals, given as the set of its literals
re_search(alts, t) == \E p \in alts : Contains(t, p)

\* the character class [぀-ゟ゠-ヿ一-龯]
NonScriptChars == {"maru", "sp"}
InScriptClass(c) == c \notin NonScriptChars

\* str.strip(): whitespace removed at both ends
IsSpace(c) == c = "sp"
RECURSIVE lstrip(_)
lstrip(s) == IF s # <<>> /\ IsSpace(Head(s)) THEN lstrip(Tail(s)) ELSE s
RECURSIVE rstrip(_)
rstrip(s) ==
    IF s # <<>> /\ IsSpace(s[Len(s)]) THEN rstrip(SubSeq(s, 1, Len(s) - 1)) ELSE s
strip(s) == rstrip(lstrip(s))

RECURSIVE Flatten(_)
Flatten(ss) == IF ss = <<>> THEN <<>> ELSE Head(ss) \o Flatten(Tail(ss))

----------------------------------------------------------------------------
(* grammar_detector.py: detect_particles *)

\* the part-of-speech tags 助詞 (particle), 助動詞 (auxiliary), 名詞 (noun) and
\* the English tag "Particle", as character sequences
POS_JOSHI == <<"jo", "shi_k">>
POS_JODOUSHI == <<"jo", "dou", "shi_k">>
POS_MEISHI == <<"mei", "shi_k">>
POS_PARTICLE_EN == <<"P", "a", "r", "t", "i", "c", "l", "e">>

\* str.lower() on the characters that occur in a tag
lower(s) == [i \in 1..Len(s) |-> IF s[i] = "P" THEN "p" ELSE s[i]]

\* "助詞" in pos or "particle" in pos.lower()
IsParticlePos(pos) ==
    \/ Contains(pos, POS_JOSHI)
    \/ Contains(lower(pos), <<"p", "a", "r", "t", "i", "c", "l", "e">>)

\* particle_info: the surface forms that have an entry, with their jlptLevel
particle_info ==
    [s \in { <<"ha">>, <<"ga">>, <<"wo">>, <<"ni">>, <<"de">>, <<"mo">>,
             <<"no">>, <<"ka", "ra">>, <<"ma", "de">>, <<"to">>, <<"ka">>,
             <<"ne">>, <<"yo">> } |-> "N5"]
    @@ [s \in { <<"ya">>, <<"yo", "ne">>, <<"tsu_s", "te">>, <<"da", "ke">>,
                <<"shi", "ka">>, <<"na", "do">>, <<"ne", "e">> } |-> "N4"]
    @@ [s \in { <<"sa">>, <<"wa">>, <<"zo">>, <<"ze">> } |-> "N3"]

YONE == <<"yo", "ne">>
ELLIPSIS == <<".", ".", ".">>

\* an entry of a result list: "pattern" and "jlptLevel" always, and
\* "exampleInSentence" when hasExample (description, example and
\* pedagogicalNote are fixed texts that depend on "pattern" alone)
Entry(pattern, level) ==
    [pattern |-> pattern, jlptLevel |-> level,
     hasExample |-> FALSE, exampleInSentence |-> <<>>]
EntryEx(pattern, level, excerpt) ==
    [pattern |-> pattern, jlptLevel |-> level,
     hasExample |-> TRUE, exampleInSentence |-> excerpt]

\* ParticleLoopBody without the test "surface not in seen_particles"
ParticleLoopBody_NoSeen(ps, token, txt) ==
    IF IsParticlePos(token.partOfSpeech)
       /\ token.surface \in DOMAIN particle_info
    THEN [found |-> Append(ps.found,
                     EntryEx(token.surface, particle_info[token.surface],
                             IF Contains(txt, token.surface)
                             THEN ELLIPSIS \o token.surface \o ELLIPSIS
                             ELSE <<>>)),
          seen |-> ps.seen \cup {token.surface}]
    ELSE ps

\* one turn of the loop "for token in tokens", on the pair
\* ps = [found |-> particles_found, seen |-> seen_particles]
ParticleLoopBody(ps, token, txt) ==
    IF IsParticlePos(token.partOfSpeech)
       /\ token.surface \in DOMAIN particle_info
       /\ token.surface \notin ps.seen
    THEN [found |-> Append(ps.found,
                     EntryEx(token.surface, particle_info[token.surface],
                             IF Contains(txt, token.surface)
                             THEN ELLIPSIS \o token.surface \o ELLIPSIS
                             ELSE <<>>)),
          seen |-> ps.seen \cup {token.surface}]
    ELSE ps

RECURSIVE ParticleLoop(_, _, _)
ParticleLoop(ps, toks, txt) ==
    IF toks = <<>> THEN ps
    ELSE ParticleLoop(ParticleLoopBody(ps, Head(toks), txt), Tail(toks), txt)

\* [p for p in particles_found if p["pattern"] not in ["よ", "ね"]]
WithoutYoNe(found) ==
    SelectSeq(found, LAMBDA p : p.pattern \notin { <<"yo">>, <<"ne">> })

\* the block "Special handling for combined particles like よね"
CombinedParticle(ps, txt) ==
    IF Contains(txt, YONE) /\ YONE \notin ps.seen
    THEN WithoutYoNe(Append(ps.found, EntryEx(YONE, particle_info[YONE], YONE)))
    ELSE ps.found

detect_particles(toks, txt) ==
    CombinedParticle(ParticleLoop([found |-> <<>>, seen |-> {}], toks, txt), txt)

----------------------------------------------------------------------------
(* grammar_detector.py: detect_patterns *)

\* the literals of the regular expressions of the cascade
MASENKA == <<"ma", "se", "n", "ka">>
NAKEREBANARANAI == <<"na", "ke", "re", "ba", "na", "ra", "na", "i">>
NAKYA == <<"na", "ki", "ya_s">>
MOII == <<"mo", "i", "i">>
KUDASAI == <<"ku", "da", "sa", "i">>
TEIMASU == <<"te", "i", "ma", "su">>
TEIRU == <<"te", "i", "ru">>
MASHITA == <<"ma", "shi", "ta">>
MASEN == <<"ma", "se", "n">>
MASU == <<"ma", "su">>
DESHITA == <<"de", "shi", "ta">>
DESU == <<"de", "su">>
TAI == <<"ta", "i">>
TA == <<"ta">>
NAI == <<"na", "i">>
DESHOU == <<"de", "shi", "yo_s", "u">>
SOUDESU == <<"so", "u", "de", "su">>
MADE == <<"ma", "de">>
YOUNI == <<"yo", "u", "ni">>
TE == <<"te">>
SURU == <<"su", "ru">>

\* [てで]rest as the set of its two literals
TeDe(rest) == { <<"te">> \o rest, <<"de">> \o rest }

\* the keys added to detected_patterns that are not Japanese strings
K_OBLIGATION == <<"obligation">>
K_PERMISSION == <<"permission">>
K_REQUEST == <<"request">>

\* the "pattern" of a regex entry: the tilde, then the form
P(form) == <<"~">> \o form
P_MADE == <<"~">> \o MADE \o <<" ", "/", " ", "~">> \o MADE \o <<"ni">>
P_SIMPLE == <<"Phrase simple">>

ContextBefore == 10
ContextAfter == 2
MaxExcerptLen == 20

Max(a, b) == IF a >= b THEN a ELSE b
Min(a, b) == IF a <= b THEN a ELSE b

\* re.search(r'[script]+lit', t) for lit in alts: the pairs <<s, e>> such that
\* t[s..e-1] is a non-empty run of the character class and a literal of alts
\* starts at e (positions from 1)
ScriptRunMatches(alts, t) ==
    { m \in (1..Len(t)) \X (1..Len(t)) :
        /\ m[1] < m[2]
        /\ \A k \in m[1]..(m[2] - 1) : InScriptClass(t[k])
        /\ \E lit \in alts : OccursAt(t, lit, m[2] - 1) }

\* extract_example, with the regex given by the literals that follow the run;
\* the literals of one regex have the same length litLen.  The match is the
\* leftmost one, and the run is greedy.
extract_example(alts, litLen, t) ==
    LET ms == ScriptRunMatches(alts, t) IN
    IF ms = {} THEN <<>>
    ELSE
      LET s == CHOOSE x \in {m[1] : m \in ms} : \A y \in {m[1] : m \in ms} : x <= y
          e == CHOOSE x \in {m[2] : m \in {n \in ms : n[1] = s}} :
                  \A y \in {m[2] : m \in {n \in ms : n[1] = s}} : x >= y
          mstart == s - 1
          mend == e + litLen - 1
          start == Max(0, mstart - ContextBefore)
          end == Min(Len(t), mend + ContextAfter)
          excerpt == strip(SubSeq(t, start + 1, end))
      IN IF Len(excerpt) <= MaxExcerptLen THEN excerpt
         ELSE SubSeq(t, mstart + 1, mend)

\* detected.append(entry); detected_patterns.add(key), on the pair
\* st = [detected |-> detected, detected_patterns |-> detected_patterns]
Emit(st, key, entry) ==
    [detected |-> Append(st.detected, entry),
     detected_patterns |-> st.detected_patterns \cup {key}]

\* ～ませんか
RuleInvitation(t, st) ==
    IF re_search({MASENKA}, t) THEN Emit(st, MASENKA, Entry(P(MASENKA), "N5"))
    ELSE st

\* ～なければならない
RuleObligation(t, st) ==
    IF re_search({NAKEREBANARANAI, NAKYA}, t)
    THEN Emit(st, K_OBLIGATION, Entry(P(NAKEREBANARANAI), "N4"))
    ELSE st

\* ～てもいい
RulePermission(t, st) ==
    IF re_search(TeDe(MOII), t)
    THEN Emit(st, K_PERMISSION, Entry(P(TE \o MOII), "N4"))
    ELSE st

\* ～てください
RuleRequest(t, st) ==
    IF re_search(TeDe(KUDASAI), t)
    THEN Emit(st, K_REQUEST, Entry(P(TE \o KUDASAI), "N5"))
    ELSE st

\* RuleProgressive with the two elif written as if
RuleProgressive_IndependentIfs(t, st) ==
    LET a == IF re_search({TEIMASU}, t)
             THEN Emit(st, TEIMASU,
                       EntryEx(P(TEIMASU), "N5", extract_example({TEIMASU}, 4, t)))
             ELSE st
        b == IF re_search(TeDe(<<"ru">>), t) /\ ~re_search(TeDe(MASU), t)
             THEN Emit(a, <<"te", "ru">>,
                       EntryEx(P(<<"te", "ru">>), "N5",
                               extract_example(TeDe(<<"ru">>), 2, t)))
             ELSE a
    IN IF re_search({TEIRU}, t) THEN Emit(b, TEIRU, Entry(P(TEIRU), "N5")) ELSE b

\* the chain if ～ています / elif ～てる / elif ～ている
RuleProgressive(t, st) ==
    IF re_search({TEIMASU}, t)
    THEN Emit(st, TEIMASU,
              EntryEx(P(TEIMASU), "N5", extract_example({TEIMASU}, 4, t)))
    ELSE IF re_search(TeDe(<<"ru">>), t) /\ ~re_search(TeDe(MASU), t)
    THEN Emit(st, <<"te", "ru">>,
              EntryEx(P(<<"te", "ru">>), "N5",
                      extract_example(TeDe(<<"ru">>), 2, t)))
    ELSE IF re_search({TEIRU}, t)
    THEN Emit(st, TEIRU, Entry(P(TEIRU), "N5"))
    ELSE st

\* RulePolite without the test of the key of ～ませんか
RulePolite_NoInvitationCheck(t, st) ==
    IF re_search({MASHITA}, t)
    THEN Emit(st, MASHITA, Entry(P(MASHITA), "N5"))
    ELSE IF re_search({MASEN}, t)
    THEN Emit(st, MASEN, Entry(P(MASEN), "N5"))
    ELSE IF /\ re_search({MASU}, t)
            /\ MASHITA \notin st.detected_patterns
            /\ MASEN \notin st.detected_patterns
    THEN Emit(st, MASU, Entry(P(MASU), "N5"))
    ELSE st

\* the chain if ～ました / elif ～ません / elif ～ます
RulePolite(t, st) ==
    IF re_search({MASHITA}, t)
    THEN Emit(st, MASHITA, Entry(P(MASHITA), "N5"))
    ELSE IF re_search({MASEN}, t) /\ MASENKA \notin st.detected_patterns
    THEN Emit(st, MASEN, Entry(P(MASEN), "N5"))
    ELSE IF /\ re_search({MASU}, t)
            /\ MASHITA \notin st.detected_patterns
            /\ MASEN \notin st.detected_patterns
    THEN Emit(st, MASU, Entry(P(MASU), "N5"))
    ELSE st

\* the chain if ～でした / elif ～です
RuleCopula(t, st) ==
    IF re_search({DESHITA}, t)
    THEN Emit(st, DESHITA, Entry(P(DESHITA), "N5"))
    ELSE IF re_search({DESU}, t)
    THEN Emit(st, DESU, Entry(P(DESU), "N5"))
    ELSE st

\* the chain if ～たい / elif ～た
RuleDesirePast(t, st) ==
    IF re_search({TAI}, t)
    THEN Emit(st, TAI, Entry(P(TAI), "N5"))
    ELSE IF /\ re_search({TA}, t)
            /\ MASHITA \notin st.detected_patterns
            /\ TAI \notin st.detected_patterns
    THEN Emit(st, TA, EntryEx(P(TA), "N5", extract_example({TA}, 1, t)))
    ELSE st

\* RuleNegative without the test of the key of the obligation rule
RuleNegative_NoObligationCheck(t, st) ==
    IF re_search({NAI}, t)
    THEN Emit(st, NAI, EntryEx(P(NAI), "N5", extract_example({NAI}, 2, t)))
    ELSE st

\* ～ない
RuleNegative(t, st) ==
    IF re_search({NAI}, t) /\ K_OBLIGATION \notin st.detected_patterns
    THEN Emit(st, NAI, EntryEx(P(NAI), "N5", extract_example({NAI}, 2, t)))
    ELSE st

\* ～でしょう
RuleConjecture(t, st) ==
    IF re_search({DESHOU}, t) THEN Emit(st, DESHOU, Entry(P(DESHOU), "N4"))
    ELSE st

\* ～そうです
RuleHearsay(t, st) ==
    IF re_search({SOUDESU}, t) THEN Emit(st, SOUDESU, Entry(P(SOUDESU), "N4"))
    ELSE st

\* ～まで / ～までに
RuleUntil(t, st) ==
    IF re_search({MADE}, t) THEN Emit(st, MADE, Entry(P_MADE, "N5"))
    ELSE st

\* ～ように
RulePurpose(t, st) ==
    IF re_search({YOUNI}, t)
    THEN Emit(st, YOUNI, EntryEx(P(YOUNI), "N3", extract_example({YOUNI}, 3, t)))
    ELSE st

\* RuleTeForm without the test of the key of ～ている
RuleTeForm_NoTeiruCheck(t, st) ==
    IF /\ re_search({TE}, t)
       /\ K_REQUEST \notin st.detected_patterns
       /\ K_PERMISSION \notin st.detected_patterns
       /\ TEIMASU \notin st.detected_patterns
       /\ <<"te", "ru">> \notin st.detected_patterns
    THEN Emit(st, TE, EntryEx(P(TE), "N5", extract_example({TE}, 1, t)))
    ELSE st

\* ～て
RuleTeForm(t, st) ==
    IF /\ re_search({TE}, t)
       /\ K_REQUEST \notin st.detected_patterns
       /\ K_PERMISSION \notin st.detected_patterns
       /\ TEIMASU \notin st.detected_patterns
       /\ TEIRU \notin st.detected_patterns
       /\ <<"te", "ru">> \notin st.detected_patterns
    THEN Emit(st, TE, EntryEx(P(TE), "N5", extract_example({TE}, 1, t)))
    ELSE st

\* ～する
RuleSuru(t, st) ==
    IF re_search({SURU}, t) THEN Emit(st, SURU, Entry(P(SURU), "N5"))
    ELSE st

\* for particle in particle_patterns: append unless its pattern is a key of
\* detected_patterns
RECURSIVE AddParticles(_, _)
AddParticles(st, ps) ==
    IF ps = <<>> THEN st
    ELSE AddParticles(
            IF Head(ps).pattern \notin st.detected_patterns
            THEN Emit(st, Head(ps).pattern, Head(ps))
            ELSE st,
            Tail(ps))

\* Fallback that adds no default entry
Fallback_Missing(dets) == dets

\* "if not detected or len(detected) == 0": the default entry
Fallback(dets) ==
    IF dets = <<>> \/ Len(dets) = 0 THEN Append(dets, Entry(P_SIMPLE, "N5"))
    ELSE dets

\* the regex rules in the order of the source
RegexCascade(t) ==
    LET s0 == [detected |-> <<>>, detected_patterns |-> {}]
        s1 == RuleInvitation(t, s0)
        s2 == RuleObligation(t, s1)
        s3 == RulePermission(t, s2)
        s4 == RuleRequest(t, s3)
        s5 == RuleProgressive(t, s4)
        s6 == RulePolite(t, s5)
        s7 == RuleCopula(t, s6)
        s8 == RuleDesirePast(t, s7)
        s9 == RuleNegative(t, s8)
        s10 == RuleConjecture(t, s9)
        s11 == RuleHearsay(t, s10)
        s12 == RuleUntil(t, s11)
        s13 == RulePurpose(t, s12)
        s14 == RuleTeForm(t, s13)
    IN RuleSuru(t, s14)

detect_patterns(t, toks) ==
    Fallback(AddParticles(RegexCascade(t), detect_particles(toks, t)).detected)

----------------------------------------------------------------------------
(* jlpt_classifier.py: load_jlpt_data, classify_word *)

\* for level in ["N5", "N4", "N3", "N2", "N1"]
Levels == <<"N5", "N4", "N3", "N2", "N1">>
LevelSet == { Levels[i] : i \in DOMAIN Levels }

\* A table maps level names to word lists; a list is read only with "in",
\* so it is modelled by the set of its words.  {} is the empty function.
NoTable == << >>
\* {"N5": [], "N4": [], "N3": [], "N2": [], "N1": []}
EmptyTable == [l \in LevelSet |-> {}]

\* vocab_data.get(level, [])
GetLevel(table, level) == IF level \in DOMAIN table THEN table[level] ELSE {}

\* load_jlpt_data: [ret |-> the table returned, cache |-> _jlpt_vocab after]
load_jlpt_data(cache, file) ==
    IF DOMAIN cache # {}                    \* "if _jlpt_vocab:" a non-empty dict
    THEN [ret |-> cache, cache |-> cache]
    ELSE IF file.status = "ok"
    THEN [ret |-> file.data, cache |-> file.data]
    ELSE [ret |-> EmptyTable, cache |-> cache]  \* FileNotFoundError, JSONDecodeError

\* the loop of classify_word over the levels ls, hardest level first
RECURSIVE FirstLevel_HardestFirst(_, _, _)
FirstLevel_HardestFirst(word, table, ls) ==
    IF ls = <<>> THEN "Unknown"
    ELSE IF word \in GetLevel(table, ls[Len(ls)]) THEN ls[Len(ls)]
    ELSE FirstLevel_HardestFirst(word, table, SubSeq(ls, 1, Len(ls) - 1))

\* the loop of classify_word over the levels ls
RECURSIVE FirstLevel(_, _, _)
FirstLevel(word, table, ls) ==
    IF ls = <<>> THEN "Unknown"
    ELSE IF word \in GetLevel(table, Head(ls)) THEN Head(ls)
    ELSE FirstLevel(word, table, Tail(ls))

\* classify_word(word): [tier |-> the level returned, cache |-> _jlpt_vocab after]
classify_word(word, cache, file) ==
    LET ld == load_jlpt_data(cache, file)
    IN [tier |-> FirstLevel(word, ld.ret, Levels), cache |-> ld.cache]

\* def classify_word(word: str): the names of its parameters
classify_word_params == <<"word">>

\* Python's binding of a call with npos positional arguments and the keyword
\* arguments kws to a function whose parameters (none with a default) are
\* params; when it fails the call raises TypeError
Binds(params, npos, kws) ==
    /\ npos <= Len(params)
    /\ kws \subseteq { params[i] : i \in (npos + 1)..Len(params) }
    /\ \A i \in (npos + 1)..Len(params) : params[i] \in kws

----------------------------------------------------------------------------
(* analyzer.py: is_proper_noun, extract_vocabulary *)

\* part-of-speech tags and sub-tags, as character sequences:
\* 動詞, 形容詞, 形状詞, 副詞, 固有名詞, 人名, 地名, 組織名, 一般, 姓
POS_DOUSHI == <<"dou", "shi_k">>
POS_KEIYOUSHI == <<"kei", "you", "shi_k">>
POS_KEIJOUSHI == <<"kei", "jou", "shi_k">>
POS_FUKUSHI == <<"fuku", "shi_k">>
KOYUUMEISHI == <<"ko", "yuu", "mei", "shi_k">>
JINMEI == <<"jin", "mei">>
CHIMEI == <<"chi", "mei">>
SOSHIKIMEI == <<"so_k", "shiki", "mei">>
IPPAN == <<"ichi", "han">>
SEI == <<"sei">>
POS_UNKNOWN == <<"U", "n", "k", "n", "o", "w", "n">>

\* the characters of the block U+30A0..U+30FF used by the inputs; "CHOUON"
\* is the long-vowel mark ー, itself in the block
KatakanaChars ==
    {"TA", "KA", "GI", "KO", "CHOUON", "HI", "TE_K", "RE", "BI", "PA", "N_K"}

\* all('゠' <= char <= 'ヿ' or char == 'ー' for char in surface)
is_all_katakana(surface) ==
    \A i \in DOMAIN surface : surface[i] \in KatakanaChars \/ surface[i] = "CHOUON"

\* common_loanwords, the entries written with the characters above:
\* テレビ, コーヒー, パン
common_loanwords ==
    { <<"TE_K", "RE", "BI">>, <<"KO", "CHOUON", "HI", "CHOUON">>, <<"PA", "N_K">> }

is_proper_noun(token) ==
    \/ \E indicator \in {KOYUUMEISHI, JINMEI, CHIMEI, SOSHIKIMEI} :
          \E k \in DOMAIN token.posDetails :
             Contains(token.posDetails[k], indicator)
    \/ \E indicator \in {KOYUUMEISHI, JINMEI, CHIMEI} :
          Contains(token.partOfSpeech, indicator)
    \/ \E indicator \in {KOYUUMEISHI, JINMEI, CHIMEI} :
          Contains(token.rawPos, indicator)
    \/ /\ token.surface # <<>>
       /\ Len(token.surface) >= 2
       /\ is_all_katakana(token.surface)
       /\ token.surface \notin common_loanwords

content_pos == {POS_MEISHI, POS_DOUSHI, POS_KEIYOUSHI, POS_KEIJOUSHI, POS_FUKUSHI}

\* the four "continue" tests of the loop of extract_vocabulary: the token
\* goes on to be classified
Survives(token, seen_words) ==
    /\ token.partOfSpeech \in content_pos
    /\ ~is_proper_noun(token)
    /\ token.baseForm \notin seen_words
    /\ ~(Len(token.baseForm) < 2 /\ token.partOfSpeech # POS_MEISHI)

\* the call classify_word(word, base_form=word) of the loop: one positional
\* argument and the keyword argument base_form
CallSiteBinds == Binds(classify_word_params, 1, {"base_form"})

\* the loop "for token in tokens" on
\* vs = [vocabulary, seen_words, raised, cache (_jlpt_vocab)];
\* an entry holds word, baseForm, reading and jlptLevel (its "meaning" is
\* the gloss of the translator)
RECURSIVE VocabularyLoop(_, _, _)
VocabularyLoop(vs, toks, file) ==
    IF toks = <<>> \/ vs.raised # "none" THEN vs
    ELSE
      LET token == Head(toks)
          word == token.baseForm
      IN IF ~Survives(token, vs.seen_words)
         THEN VocabularyLoop(vs, Tail(toks), file)
         ELSE IF ~CallSiteBinds
         THEN [vs EXCEPT !.seen_words = @ \cup {word}, !.raised = "TypeError"]
         ELSE
           LET cw == classify_word(word, vs.cache, file)
           IN VocabularyLoop(
                [vocabulary |-> Append(vs.vocabulary,
                                   [word |-> word, baseForm |-> word,
                                    reading |-> token.reading,
                                    jlptLevel |-> cw.tier]),
                 seen_words |-> vs.seen_words \cup {word},
                 raised |-> "none",
                 cache |-> cw.cache],
                Tail(toks), file)

VocabularyCap == 10

\* extract_vocabulary(tokens): [raised, vocabulary, cache]
extract_vocabulary(toks, cache, file) ==
    LET vs == VocabularyLoop([vocabulary |-> <<>>, seen_words |-> {},
                              raised |-> "none", cache |-> cache], toks, file)
    IN [raised |-> vs.raised,
        vocabulary |-> IF vs.raised # "none" THEN <<>>
                       ELSE SubSeq(vs.vocabulary, 1,
                                   Min(VocabularyCap, Len(vs.vocabulary))),
        cache |-> vs.cache]

----------------------------------------------------------------------------
(* jlpt_classifier.py: classify_sentence *)

\* vocab_entry.get("jlptLevel", "Unknown")
EntryLevel(vocab_entry) ==
    IF "jlptLevel" \in DOMAIN vocab_entry THEN vocab_entry.jlptLevel ELSE "Unknown"

\* the keys of level_counts
CountedLevels == LevelSet \cup {"Unknown"}

\* level_counts with the N1 entries counted under "Unknown"
level_counts_N1AsUnknown(vocabulary) ==
    [l \in CountedLevels |->
        Cardinality({ i \in DOMAIN vocabulary :
            (IF EntryLevel(vocabulary[i]) = "N1" THEN "Unknown"
             ELSE EntryLevel(vocabulary[i])) = l })]

\* level_counts after the loop "for vocab_entry in vocabulary"
level_counts(vocabulary) ==
    [l \in CountedLevels |->
        Cardinality({ i \in DOMAIN vocabulary : EntryLevel(vocabulary[i]) = l })]

\* level_weights with the weight of N4 given to "Unknown"
level_weights_UnknownAsN4 ==
    [l \in CountedLevels |->
        CASE l = "N1" -> 5 [] l = "N2" -> 4 [] l = "N3" -> 3
          [] l = "N4" -> 2 [] l = "N5" -> 1 [] OTHER -> 2]

level_weights ==
    [l \in CountedLevels |->
        CASE l = "N1" -> 5 [] l = "N2" -> 4 [] l = "N3" -> 3
          [] l = "N4" -> 2 [] l = "N5" -> 1 [] OTHER -> 0]

\* sum(f[l] for l in ls)
RECURSIVE SumOver(_, _)
SumOver(f, ls) ==
    IF ls = {} THEN 0
    ELSE LET l == CHOOSE x \in ls : TRUE IN f[l] + SumOver(f, ls \ {l})

\* the thresholds of the length heuristic and of the decision
ShortSentence == 8
MediumSentence == 15

\* average_weight >= k, where average_weight = total_weight / total_words is
\* the float quotient of two small integers and k one of 4.0, 3.0, 2.0: the
\* rounded quotient is at least k exactly when total_weight >= k * total_words
AverageAtLeast(total_weight, total_words, k) == total_weight >= k * total_words

\* classify_sentence with the test "level_counts["N2"] >= 1" in the N2 rule
classify_sentence_OneN2(toks, vocabulary) ==
    LET counts == level_counts(vocabulary)
        sentence_length == Len(toks)
        total_weight ==
            SumOver([l \in CountedLevels |-> counts[l] * level_weights[l]], CountedLevels)
        total_words == SumOver(counts, CountedLevels)
    IN IF total_words = 0
       THEN IF sentence_length <= ShortSentence THEN "N5"
            ELSE IF sentence_length <= MediumSentence THEN "N4"
            ELSE "N3"
       ELSE IF counts["N1"] > 0 THEN "N1"
       ELSE IF counts["N2"] >= 1 \/ AverageAtLeast(total_weight, total_words, 4)
       THEN "N2"
       ELSE IF counts["N2"] >= 1 \/ AverageAtLeast(total_weight, total_words, 3)
       THEN "N3"
       ELSE IF AverageAtLeast(total_weight, total_words, 2) THEN "N4"
       ELSE "N5"

classify_sentence(toks, vocabulary) ==
    LET counts == level_counts(vocabulary)
        sentence_length == Len(toks)
        total_weight ==
            SumOver([l \in CountedLevels |-> counts[l] * level_weights[l]], CountedLevels)
        total_words == SumOver(counts, CountedLevels)
    IN IF total_words = 0
       THEN IF sentence_length <= ShortSentence THEN "N5"
            ELSE IF sentence_length <= MediumSentence THEN "N4"
            ELSE "N3"
       ELSE IF counts["N1"] > 0 THEN "N1"
       ELSE IF counts["N2"] >= 2 \/ AverageAtLeast(total_weight, total_words, 4)
       THEN "N2"
       ELSE IF counts["N2"] >= 1 \/ AverageAtLeast(total_weight, total_words, 3)
       THEN "N3"
       ELSE IF AverageAtLeast(total_weight, total_words, 2) THEN "N4"
       ELSE "N5"

----------------------------------------------------------------------------
(* translator.py: load_cache, translate_with_deepl, get_jisho_translation, *)
(* translate_to_french; analyzer.py: load_vocabulary_dictionary            *)

\* Python values: a str is the sequence of its pieces
Str(pieces) == [type |-> "str", v |-> pieces]
ListOf(items) == [type |-> "list", v |-> items]
Number(n) == [type |-> "int", v |-> <<n>>]
None == [type |-> "NoneType", v |-> <<>>]

\* bool(x): None, "" and [] are false
Truthy(x) ==
    CASE x.type = "NoneType" -> FALSE
      [] x.type = "int" -> x.v # <<0>>
      [] OTHER -> x.v # <<>>

\* x[:50] is defined on a str and on a list, and raises TypeError otherwise
Sliceable(x) == x.type \in {"str", "list"}

\* はい, an entry of COMMON_WORDS_FR
W_HAI == <<"ha", "i">>
COMMON_WORDS_FR == [w \in {W_HAI} |-> Str(<<"oui">>)]

PLACEHOLDER == Str(<<"[Traduction manquante]">>)

\* load_cache: _translation_cache after the call (also the dict returned)
load_cache(cache, file) ==
    IF DOMAIN cache # {}                \* "if _translation_cache:"
    THEN cache
    ELSE IF file.status = "ok" THEN file.data
    ELSE NoTable                        \* no file, JSONDecodeError, Exception

\* load_vocabulary_dictionary:
\* [raised, ret |-> the dict returned, cache |-> _vocab_dictionary after]
load_vocabulary_dictionary(cache, file) ==
    IF DOMAIN cache # {}                \* "if _vocab_dictionary:"
    THEN [raised |-> FALSE, ret |-> cache, cache |-> cache]
    ELSE IF file.status = "ok"
    THEN [raised |-> FALSE, ret |-> file.data, cache |-> file.data]
    ELSE IF file.status \in {"missing", "malformed"}
    THEN [raised |-> FALSE, ret |-> NoTable, cache |-> cache]
    ELSE [raised |-> TRUE, ret |-> NoTable, cache |-> cache]  \* not caught here

\* the timeouts given to requests.post and requests.get
DeeplTimeout == 10
JishoTimeout == 5

\* a network request: the service, the timeout it is issued with (<<>> when
\* the call passes none, <<seconds>> otherwise), the number of the attempt
\* and whether it failed (no answer, or an answer that raises)
Request(service, timeout, attempt, failed) ==
    [service |-> service, timeout |-> timeout, attempt |-> attempt,
     failed |-> failed]

\* requests.post / requests.get raise, or raise_for_status does
HttpFailed(resp) == resp.status # "200"

\* translate_with_deepl(text): [ret, requests]; resp is what the service
\* does with the one request, [status, body]
translate_with_deepl(key, resp) ==
    IF ~key THEN [ret |-> None, requests |-> <<>>]
    ELSE
      [requests |-> << Request("deepl", <<DeeplTimeout>>, 1, HttpFailed(resp)) >>,
       ret |->
         IF resp.status \in {"timeout", "error"} THEN None   \* requests.post raises
         ELSE IF resp.status \in {"403", "456", "429"} THEN None
         ELSE IF resp.status # "200" THEN None               \* raise_for_status
         ELSE IF ~resp.body.parsed THEN None                 \* response.json() raises
         ELSE IF resp.body.translations # <<>>
         THEN LET translation == resp.body.translations[1].text
              IN IF Sliceable(translation) THEN translation
                 ELSE None                                   \* TypeError is caught
         ELSE None]

\* '; '.join(english_glosses)
RECURSIVE Join(_)
Join(glosses) ==
    IF glosses = <<>> THEN <<>>
    ELSE IF Len(glosses) = 1 THEN <<glosses[1]>>
    ELSE <<glosses[1], "; ">> \o Join(Tail(glosses))

\* get_jisho_translation(word): [ret, requests]; ret is None or the str
\* under the key 'english'
get_jisho_translation(resp) ==
    [requests |-> << Request("jisho", <<JishoTimeout>>, 1, HttpFailed(resp)) >>,
     ret |->
       IF resp.status \in {"timeout", "error"} THEN None
       ELSE IF resp.status # "200" THEN None
       ELSE IF ~resp.body.parsed THEN None
       ELSE IF resp.body.data # <<>>
               /\ resp.body.data[1].senses # <<>>
               /\ resp.body.data[1].senses[1].english_definitions # <<>>
       THEN Str(Join(resp.body.data[1].senses[1].english_definitions))
       ELSE None]

\* the result of a call of translate_to_french:
\* ret, the sources consulted in order, the requests sent, and the globals
Outcome(ret, trace, reqs, cache, modified, vocab) ==
    [ret |-> ret, trace |-> trace, requests |-> reqs,
     cache |-> cache, modified |-> modified, vocab |-> vocab]

\* cache[word] = translation
Put(cache, word, translation) ==
    [w \in DOMAIN cache \cup {word} |-> IF w = word THEN translation ELSE cache[w]]

\* strategies 4 to 6: DeepL when the key is configured, Jisho when enabled,
\* then the placeholder
LateStrategies(word, use_jisho, trace, cache, modified, vocab, key, deepl, jisho) ==
    LET dr == translate_with_deepl(key, deepl)
        t4 == IF key THEN Append(trace, "deepl") ELSE trace
    IN IF key /\ Truthy(dr.ret)
       THEN Outcome(dr.ret, t4, dr.requests, Put(cache, word, dr.ret), TRUE, vocab)
       ELSE
         LET jr == IF use_jisho THEN get_jisho_translation(jisho)
                   ELSE [ret |-> None, requests |-> <<>>]
             t5 == IF use_jisho THEN Append(t4, "jisho") ELSE t4
         IN IF Truthy(jr.ret)
            THEN Outcome(Str(jr.ret.v \o <<" (EN)">>), t5, dr.requests \o jr.requests,
                         Put(cache, word, Str(jr.ret.v \o <<" (EN)">>)), TRUE, vocab)
            ELSE Outcome(PLACEHOLDER, Append(t5, "placeholder"),
                         dr.requests \o jr.requests, cache, modified, vocab)

\* strategy 3 without the write to the cache
DictionaryStrategy_NoCacheWrite(word, use_jisho, trace, cache, modified, vocab, vfile, key, deepl, jisho) ==
    LET ld == load_vocabulary_dictionary(vocab, vfile)
        t3 == Append(trace, "dictionary")
    IN IF ~ld.raised /\ word \in DOMAIN ld.ret
       THEN Outcome(ld.ret[word], t3, <<>>, cache, modified, ld.cache)
       ELSE LateStrategies(word, use_jisho, t3, cache, modified, ld.cache,
                           key, deepl, jisho)

\* strategy 3: the static dictionary, inside try/except Exception
DictionaryStrategy(word, use_jisho, trace, cache, modified, vocab, vfile, key, deepl, jisho) ==
    LET ld == load_vocabulary_dictionary(vocab, vfile)
        t3 == Append(trace, "dictionary")
    IN IF ~ld.raised /\ word \in DOMAIN ld.ret
       THEN Outcome(ld.ret[word], t3, <<>>, Put(cache, word, ld.ret[word]), TRUE,
                    ld.cache)
       ELSE LateStrategies(word, use_jisho, t3, cache, modified, ld.cache,
                           key, deepl, jisho)

\* translate_to_french(word, use_jisho) in the globals
\* g = [cache, modified, vocab], with the files cfile and vfile, the key and
\* the responses deepl and jisho of the services
translate_to_french(word, use_jisho, g, cfile, vfile, key, deepl, jisho) ==
    IF word \in DOMAIN COMMON_WORDS_FR
    THEN Outcome(COMMON_WORDS_FR[word], <<"priority">>, <<>>,
                 g.cache, g.modified, g.vocab)
    ELSE
      LET cache == load_cache(g.cache, cfile)
      IN IF word \in DOMAIN cache
         THEN Outcome(cache[word], <<"priority", "cache">>, <<>>,
                      cache, g.modified, g.vocab)
         ELSE DictionaryStrategy(word, use_jisho, <<"priority", "cache">>, cache,
                                 g.modified, g.vocab, vfile, key, deepl, jisho)

----------------------------------------------------------------------------
(* analyzer.py: tokenize, generate_explanation, analyze_text; *)
(* translator.py: translate_sentence                         *)

\* jaconv.kata2hira on the characters of the readings used
kata2hira(s) ==
    [i \in 1..Len(s) |->
        CASE s[i] = "WA" -> "wa" [] s[i] = "TA" -> "ta" [] s[i] = "SHI" -> "shi"
          [] s[i] = "NE" -> "ne" [] s[i] = "KA" -> "ka" [] s[i] = "GI" -> "gi"
          [] OTHER -> s[i]]

\* the body of the loop "for word in tagger(text)": the token of a word
\* [surface, pos1, pos2, kana, lemma, feature]; an empty field is a missing
\* (None or empty) feature
TokenOfWord(word) ==
    LET pos == IF word.pos1 # <<>> THEN word.pos1 ELSE POS_UNKNOWN
    IN [surface |-> word.surface,
        reading |-> IF word.kana # <<>> THEN kata2hira(word.kana) ELSE word.surface,
        partOfSpeech |-> pos,
        baseForm |-> IF word.lemma # <<>> THEN word.lemma ELSE word.surface,
        rawPos |-> IF word.feature # <<>> THEN word.feature ELSE pos,
        posDetails |-> SelectSeq(<<word.pos1, word.pos2>>, LAMBDA d : d # <<>>)]

\* the token of the "except Exception" branch of tokenize
FallbackToken(txt) ==
    [surface |-> txt, reading |-> txt, partOfSpeech |-> POS_UNKNOWN, baseForm |-> txt]

\* tokenize without the fallback token
tokenize_NoFallback(txt, tagger) ==
    IF tagger.raises
    THEN <<>>
    ELSE [i \in 1..Len(tagger.words) |-> TokenOfWord(tagger.words[i])]

\* tokenize(text), where the tagger raises or yields tagger.words
tokenize(txt, tagger) ==
    IF tagger.raises
    THEN << FallbackToken(txt) >>
    ELSE [i \in 1..Len(tagger.words) |-> TokenOfWord(tagger.words[i])]

\* the fallback message of translate_sentence; it starts with "[Traduction"
SENTENCE_FALLBACK == Str(<<"[Traduction", " de phrase complete indisponible">>)

\* translate_sentence(sentence): the value returned
translate_sentence(key, deepl) ==
    LET deepl_translation == translate_with_deepl(key, deepl).ret
    IN IF key /\ Truthy(deepl_translation) THEN deepl_translation
       ELSE SENTENCE_FALLBACK

\* x.startswith("[Traduction") on a str
StartsWithTraduction(x) == x.v # <<>> /\ x.v[1] = "[Traduction"

\* generate_explanation: [raised, explanation]; the explanation holds which
\* summary was built, the name of the pattern of grammar_focus, the words of
\* vocab_focus and whether the translation hint is set
generate_explanation(tokens_, vocabulary, patterns, key, deepl) ==
    LET translation == translate_sentence(key, deepl)
    IN IF translation.type # "str"
       THEN [raised |-> "AttributeError",     \* translation.startswith
             explanation |-> <<>>]
       ELSE
         LET has_deepl == Truthy(translation) /\ ~StartsWithTraduction(translation)
         IN [raised |-> "none",
             explanation |-> <<
               [summary |-> IF has_deepl THEN "translation"
                            ELSE IF vocabulary # <<>> THEN "key_words"
                            ELSE "generic",
                grammar_focus |-> IF patterns # <<>> THEN patterns[1].pattern
                                  ELSE <<>>,
                vocab_focus |-> <<>>,         \* no entry has a "meaning" here
                translation_hint |-> ~has_deepl] >>]

\* analyze_text(text): [raised, result, cache]; result is the one dict
\* returned, or nothing when the exception is raised again.  toks is the
\* value of tokenize(text) and ex the outcome of extract_vocabulary(tokens),
\* its first two calls, each evaluated once by the caller
analyze_text(txt, toks, ex, key, deepl) ==
    IF ex.raised # "none"
    THEN [raised |-> ex.raised, result |-> <<>>, cache |-> ex.cache]
    ELSE
      LET grammar_patterns == detect_patterns(txt, toks)
          jlpt_level == classify_sentence(toks, ex.vocabulary)
          ge == generate_explanation(toks, ex.vocabulary, grammar_patterns,
                                     key, deepl)
      IN IF ge.raised # "none"
         THEN [raised |-> ge.raised, result |-> <<>>, cache |-> ex.cache]
         ELSE [raised |-> "none",
               result |-> << [originalText |-> txt,
                              tokens |-> toks,
                              grammarPatterns |-> grammar_patterns,
                              vocabulary |-> ex.vocabulary,
                              jlptLevel |-> jlpt_level,
                              explanation |-> ge.explanation[1]] >>,
               cache |-> ex.cache]

----------------------------------------------------------------------------
(* The inputs of the grammar detector *)

\* the pieces a text is assembled from: the forms the rules look for, the
\* parts of them that meet across a boundary, a kanji and a full stop
Chunks ==
    { <<"kanji">>, <<"maru">>, TE, <<"de">>, <<"i">>, <<"ru">>, <<"su">>,
      <<"ka">>, TA,
      MASU, MASEN, MASHITA, <<"shi", "ta">>, NAI,
      <<"na", "ke", "re", "ba", "na", "ra">>, MOII, KUDASAI,
      MADE, TEIMASU, YONE }

\* the tokens a token list is made of: particles the table knows, under the
\* Japanese and the English tag, and a noun with the surface of a particle
TokenKinds ==
    { [surface |-> <<"yo">>, partOfSpeech |-> POS_JOSHI],
      [surface |-> <<"ne">>, partOfSpeech |-> POS_JOSHI],
      [surface |-> YONE, partOfSpeech |-> POS_JOSHI],
      [surface |-> <<"ka">>, partOfSpeech |-> POS_JOSHI],
      [surface |-> MADE, partOfSpeech |-> POS_PARTICLE_EN],
      [surface |-> <<"ne">>, partOfSpeech |-> POS_MEISHI] }

\* a text of k chunks with a token list of at most MaxInput - k tokens
GrammarInit ==
    /\ \E k \in 0..MaxInput : \E cs \in [1..k -> Chunks] :
         \E j \in 0..(MaxInput - k) : \E ts \in [1..j -> TokenKinds] :
            /\ text = Flatten(cs)
            /\ tokens = ts
    /\ gpc = "start"
    /\ detected = <<>>

GrammarIdle ==
    /\ text = <<>>
    /\ tokens = <<>>
    /\ gpc = "start"
    /\ detected = <<>>

\* a call detect_patterns(text, tokens)
CallDetectPatterns ==
    /\ gpc = "start"
    /\ detected' = detect_patterns(text, tokens)
    /\ gpc' = "patterns"
    /\ UNCHANGED <<text, tokens, cvars, vvars, ovars>>

\* a call detect_particles(tokens, text)
CallDetectParticles ==
    /\ gpc = "start"
    /\ detected' = detect_particles(tokens, text)
    /\ gpc' = "particles"
    /\ UNCHANGED <<text, tokens, cvars, vvars, ovars>>

----------------------------------------------------------------------------
(* The inputs of the classifier and of the vocabulary extractor *)

\* 私, 授業 and 未知 (the last one in no list)
W_WATASHI == <<"watashi_k">>
W_JUGYOU == <<"ju_k", "gyou_k">>
W_MICHI == <<"mi_k", "chi_k">>
JWords == {W_WATASHI, W_JUGYOU}
ClassifyWords == {W_WATASHI, W_JUGYOU, W_MICHI}

\* the tables a data file can hold: any levels, any lists over JWords
Tables == UNION { [L -> SUBSET JWords] : L \in SUBSET LevelSet }

Files ==
    { [status |-> "ok", data |-> tb] : tb \in Tables }
    \cup { [status |-> st, data |-> NoTable] : st \in {"missing", "malformed"} }

ClassifierIdle ==
    /\ jlpt_file = [status |-> "missing", data |-> NoTable]
    /\ jlpt_vocab = NoTable
    /\ cw_log = <<>>

\* the module is imported: _jlpt_vocab = {}
ClassifierInit ==
    /\ jlpt_file \in Files
    /\ jlpt_vocab = NoTable
    /\ cw_log = <<>>

\* a call classify_word(w)
CallClassifyWord(w) ==
    /\ Len(cw_log) < MaxCalls
    /\ LET r == classify_word(w, jlpt_vocab, jlpt_file)
       IN /\ jlpt_vocab' = r.cache
          /\ cw_log' = Append(cw_log, [word |-> w, tier |-> r.tier])
    /\ UNCHANGED <<jlpt_file, gvars, vvars, ovars>>

\* a token of the tokenizer; rawPos is the comma-separated feature string
Tok(surface, base, pos, details) ==
    [surface |-> surface, reading |-> surface, partOfSpeech |-> pos,
     baseForm |-> base, posDetails |-> details,
     rawPos |-> IF details = <<>> THEN <<>>
                ELSE Flatten([i \in DOMAIN details |->
                        IF i = 1 THEN details[i] ELSE <<",">> \o details[i]])]

TAKAGI == <<"TA", "KA", "GI">>
KOOHII == <<"KO", "CHOUON", "HI", "CHOUON">>

VocabTokenKinds ==
    { Tok(W_WATASHI, W_WATASHI, POS_MEISHI, <<POS_MEISHI, IPPAN>>),
      Tok(W_JUGYOU, W_JUGYOU, POS_MEISHI, <<POS_MEISHI, IPPAN>>),
      Tok(<<"ha">>, <<"ha">>, POS_JOSHI, <<POS_JOSHI>>),
      Tok(TAKAGI, TAKAGI, POS_MEISHI, <<POS_MEISHI, KOYUUMEISHI, JINMEI, SEI>>),
      Tok(TAKAGI, TAKAGI, POS_MEISHI, <<POS_MEISHI, IPPAN>>),
      Tok(KOOHII, KOOHII, POS_MEISHI, <<POS_MEISHI, IPPAN>>),
      Tok(<<"shi">>, <<"su", "ru">>, POS_DOUSHI, <<POS_DOUSHI>>),
      Tok(<<"e_k">>, <<"e_k">>, POS_DOUSHI, <<POS_DOUSHI>>),
      Tok(W_MICHI, W_MICHI, POS_UNKNOWN, <<>>) }

\* the data files of the behaviours of the extractor
VocabFiles ==
    { [status |-> "ok",
       data |-> [l \in LevelSet |-> IF l = "N5" THEN {W_WATASHI}
                                    ELSE IF l = "N4" THEN {W_JUGYOU} ELSE {}]],
      [status |-> "ok", data |-> NoTable],
      [status |-> "missing", data |-> NoTable] }

NotCalled == [called |-> FALSE, raised |-> "none", vocabulary |-> <<>>]

VocabIdle ==
    /\ vtokens = <<>>
    /\ ev = NotCalled

VocabInit ==
    /\ \E k \in 0..MaxVocabTokens : \E ts \in [1..k -> VocabTokenKinds] :
          vtokens = ts
    /\ ev = NotCalled

\* a call extract_vocabulary(vtokens)
CallExtractVocabulary ==
    /\ ~ev.called
    /\ LET r == extract_vocabulary(vtokens, jlpt_vocab, jlpt_file)
       IN /\ ev' = [called |-> TRUE, raised |-> r.raised,
                    vocabulary |-> r.vocabulary]
          /\ jlpt_vocab' = r.cache
    /\ UNCHANGED <<jlpt_file, cw_log, vtokens, gvars, ovars>>

----------------------------------------------------------------------------
(* The inputs of the translator *)

TranslateWords == {W_HAI, W_WATASHI, W_JUGYOU}

\* data/translation_cache.json
CacheFiles ==
    { [status |-> "missing", data |-> NoTable],
      [status |-> "malformed", data |-> NoTable],
      [status |-> "ok", data |-> NoTable],
      [status |-> "ok", data |-> [w \in {W_JUGYOU} |-> Str(<<"cours">>)]] }

\* data/vocab_dictionary.json; "error" is any exception other than the two
\* that load_vocabulary_dictionary catches (or a failing import of analyzer)
DictionaryFiles ==
    { [status |-> "missing", data |-> NoTable],
      [status |-> "malformed", data |-> NoTable],
      [status |-> "error", data |-> NoTable],
      [status |-> "ok", data |-> [w \in {W_WATASHI} |-> Str(<<"je">>)]] }

Response(status, body) == [status |-> status, body |-> body]

\* the body of a DeepL response: not JSON, or the JSON object it parses to
DeeplBody(translations) == [parsed |-> TRUE, translations |-> translations]
DeeplNoJson == [parsed |-> FALSE, translations |-> <<>>]

\* what the DeepL service does with a request
DeeplResponses ==
    { Response(st, DeeplNoJson) :
        st \in {"timeout", "error", "403", "456", "429", "500", "200"} }
    \cup { Response("200", DeeplBody(<<>>)) }
    \cup { Response("200", DeeplBody(<< [text |-> t] >>)) :
             t \in { Str(<<"etude">>), Str(<<>>), ListOf(<<"etude">>), Number(5) } }

\* the body of a Jisho response
JishoBody(data) == [parsed |-> TRUE, data |-> data]
JishoNoJson == [parsed |-> FALSE, data |-> <<>>]

\* what the Jisho service does with a request
JishoResponses ==
    { Response(st, JishoNoJson) : st \in {"timeout", "error", "500", "200"} }
    \cup { Response("200", JishoBody(<<>>)),
           Response("200", JishoBody(<< [senses |-> <<>>] >>)) }
    \cup { Response("200",
              JishoBody(<< [senses |-> << [english_definitions |-> d] >>] >>)) :
             d \in { <<>>, <<"study">>, <<"study", "diligence">> } }

\* the answers a service can give: a service that gets no request (asked is
\* false) gives none, which stands here as the one answer "error"
ResponsesIf(asked, responses, nobody) ==
    IF asked THEN responses ELSE { Response("error", nobody) }

TranslatorIdle ==
    /\ tr_cache = NoTable
    /\ tr_modified = FALSE
    /\ tr_cache_file = [status |-> "missing", data |-> NoTable]
    /\ tr_vocab = NoTable
    /\ tr_vocab_file = [status |-> "missing", data |-> NoTable]
    /\ tr_key = FALSE
    /\ tr_log = <<>>

\* the modules are imported: _translation_cache = {}, _cache_modified = False,
\* _vocab_dictionary = {}
TranslatorInit ==
    /\ tr_cache = NoTable
    /\ tr_modified = FALSE
    /\ tr_cache_file \in CacheFiles
    /\ tr_vocab = NoTable
    /\ tr_vocab_file \in DictionaryFiles
    /\ tr_key \in BOOLEAN
    /\ tr_log = <<>>

\* a call translate_to_french(word, use_jisho) while the services answer
\* deepl and jisho
CallTranslate(word, use_jisho, deepl, jisho) ==
    /\ Len(tr_log) < MaxTranslateCalls
    /\ LET r == translate_to_french(word, use_jisho,
                   [cache |-> tr_cache, modified |-> tr_modified, vocab |-> tr_vocab],
                   tr_cache_file, tr_vocab_file, tr_key, deepl, jisho)
       IN /\ tr_cache' = r.cache
          /\ tr_modified' = r.modified
          /\ tr_vocab' = r.vocab
          /\ tr_log' = Append(tr_log,
                [word |-> word, use_jisho |-> use_jisho, ret |-> r.ret,
                 trace |-> r.trace, requests |-> r.requests,
                 modified |-> r.modified,
                 cached |-> IF word \in DOMAIN r.cache THEN r.cache[word] ELSE None])
    /\ UNCHANGED <<tr_cache_file, tr_vocab_file, tr_key, gvars, cvars, vvars, svars, avars, xvars, zvars>>

\* a call save_cache(); written tells whether the file could be written
CallSaveCache(written) ==
    /\ tr_modified
    /\ written
    /\ tr_cache_file' = [status |-> "ok", data |-> tr_cache]
    /\ tr_modified' = FALSE
    /\ UNCHANGED <<tr_cache, tr_vocab, tr_vocab_file, tr_key, tr_log,
                   gvars, cvars, vvars, svars, avars, xvars, zvars>>

----------------------------------------------------------------------------
(* The inputs of analyze_text *)

AnalyzeChunks ==
    { <<"kanji">>, <<"maru">>, TE, MASU, NAI, TEIMASU, MASENKA, YONE }

\* 補助記号, the tag of a punctuation mark
POS_HOJOKIGOU == <<"ho", "jo", "ki", "gou">>

Word(surface, pos1, pos2, kana, lemma) ==
    [surface |-> surface, pos1 |-> pos1, pos2 |-> pos2, kana |-> kana,
     lemma |-> lemma, feature |-> <<>>]

\* the words a tagger yields: a noun, a particle, a punctuation mark without
\* reading and lemma, a word without any feature, a name
WordKinds ==
    { Word(W_WATASHI, POS_MEISHI, IPPAN, <<"WA", "TA", "SHI">>, W_WATASHI),
      Word(<<"ne">>, POS_JOSHI, <<>>, <<"NE">>, <<"ne">>),
      Word(<<"maru">>, POS_HOJOKIGOU, <<>>, <<>>, <<>>),
      Word(<<"kanji">>, <<>>, <<>>, <<>>, <<>>),
      Word(TAKAGI, POS_MEISHI, KOYUUMEISHI, TAKAGI, TAKAGI) }

\* the tagger raises on the text, or yields words
TaggerOutcomes ==
    { [raises |-> TRUE, words |-> <<>>] }
    \cup { [raises |-> FALSE, words |-> ws] :
             ws \in UNION { [1..n -> WordKinds] : n \in 0..MaxTaggerWords } }

\* the answers of DeepL to the request of translate_sentence: a failure, or
\* a translation whose "text" is a string as its API documents
SentenceResponses ==
    { r \in DeeplResponses :
        translate_with_deepl(TRUE, r).ret.type \in {"NoneType", "str"} }

AnalyzeNotCalled == [called |-> FALSE, raised |-> "none", result |-> <<>>]

AnalyzeIdle ==
    /\ an_text = <<>>
    /\ an_tagger = [raises |-> TRUE, words |-> <<>>]
    /\ an_ret = AnalyzeNotCalled

AnalyzeInit ==
    /\ \E k \in 0..MaxAnalyzeChunks : \E cs \in [1..k -> AnalyzeChunks] :
          an_text = Flatten(cs)
    /\ an_tagger \in TaggerOutcomes
    /\ an_ret = AnalyzeNotCalled

\* a call analyze_text(an_text) while DeepL answers deepl
CallAnalyzeText(deepl) ==
    /\ ~an_ret.called
    /\ \E toks \in { tokenize(an_text, an_tagger) } :
       \E ex \in { extract_vocabulary(toks, jlpt_vocab, jlpt_file) } :
       \E r \in { analyze_text(an_text, toks, ex, tr_key, deepl) } :
          /\ an_ret' = [called |-> TRUE, raised |-> r.raised, result |-> r.result]
          /\ jlpt_vocab' = r.cache
    /\ UNCHANGED <<an_text, an_tagger, jlpt_file, cw_log, gvars, vvars, svars, tvars, xvars, zvars>>

----------------------------------------------------------------------------
(* The inputs of classify_sentence *)

\* a vocabulary entry is read only through its "jlptLevel"; the last kind
\* is an entry without that key
SentenceEntryKinds ==
    { [jlptLevel |-> l] : l \in CountedLevels } \cup { [word |-> W_MICHI] }

\* classify_sentence reads only len(tokens): a token list of k tokens
OpaqueTokens(k) == [i \in 1..k |-> [surface |-> <<"kanji">>]]

SentenceNotCalled == [called |-> FALSE, level |-> "none"]

SentenceIdle ==
    /\ cs_tokens = <<>>
    /\ cs_vocab = <<>>
    /\ cs_ret = SentenceNotCalled

SentenceInit ==
    /\ \E k \in 0..MaxSentenceTokens : cs_tokens = OpaqueTokens(k)
    /\ \E n \in 0..MaxSentenceVocab : \E v \in [1..n -> SentenceEntryKinds] :
          cs_vocab = v
    /\ cs_ret = SentenceNotCalled

\* a call classify_sentence(cs_tokens, cs_vocab)
CallClassifySentence ==
    /\ ~cs_ret.called
    /\ cs_ret' = [called |-> TRUE, level |-> classify_sentence(cs_tokens, cs_vocab)]
    /\ UNCHANGED <<cs_tokens, cs_vocab, gvars, cvars, vvars, tvars, avars, xvars, zvars>>

----------------------------------------------------------------------------
(* ai_explainer.py: the two callers of the AI providers *)

API_TIMEOUT_SECONDS == 15
MAX_RETRIES == 2

\* 2 ** n
RECURSIVE Pow2(_)
Pow2(n) == IF n = 0 THEN 1 ELSE 2 * Pow2(n - 1)

\* what the callers return: None, the parsed explanation, or
\* _get_fallback_explanation()
AiNone == [kind |-> "None"]
AiData == [kind |-> "data"]
AiFallback == [kind |-> "fallback"]

\* what json.loads(content) and _validate_response do with the text a
\* provider sent: "valid" is JSON with the required fields,
\* "invalid_structure" is JSON that _validate_response rejects, "not_json"
\* makes json.loads raise JSONDecodeError, and "invalid_type" is JSON on
\* which _validate_response itself raises TypeError (a number, or a note
\* that is a number)
ContentKinds == {"valid", "invalid_structure", "invalid_type", "not_json"}

\* the value returned for a content on which nothing raises but json.loads
ParseContent(content) ==
    IF content = "valid" THEN AiData
    ELSE IF content = "invalid_structure" THEN AiNone
    ELSE AiFallback

\* _call_openrouter_api(prompt): [ret, requests, waits]; resp is what the
\* service does with the one POST, [status, body]
_call_openrouter_api(key, resp) ==
    IF ~key THEN [ret |-> AiNone, requests |-> <<>>, waits |-> <<>>]
    ELSE
      [requests |-> << Request("openrouter", <<API_TIMEOUT_SECONDS>>, 1,
                               HttpFailed(resp)) >>,
       waits |-> <<>>,
       ret |->
         IF HttpFailed(resp) THEN AiNone             \* httpx.HTTPError
         ELSE IF resp.body = "no_json" THEN AiFallback   \* response.json() raises
         ELSE IF resp.body = "no_choices" THEN AiNone
         ELSE IF resp.body = "malformed_choice" THEN AiNone  \* KeyError
         ELSE IF resp.body = "invalid_type" THEN AiNone      \* except Exception
         ELSE ParseContent(resp.body)]

\* _call_gemini_api(prompt, retry_count): [ret, requests, waits]; ready
\* tells whether _gemini_model is set or _initialize_gemini() sets it,
\* outcomes[k] is what generate_content does at the k-th attempt
RECURSIVE _call_gemini_api(_, _, _)
_call_gemini_api(retry_count, ready, outcomes) ==
    IF ~ready THEN [ret |-> AiNone, requests |-> <<>>, waits |-> <<>>]
    ELSE
      LET outcome == outcomes[retry_count + 1]
          request == Request("gemini", <<>>, retry_count + 1, outcome = "raises")
      IN IF outcome \in {"raises", "invalid_type"}     \* except Exception
         THEN IF retry_count < MAX_RETRIES
              THEN LET backoff_seconds == Pow2(retry_count + 1)
                       later == _call_gemini_api(retry_count + 1, ready, outcomes)
                   IN [ret |-> later.ret,
                       requests |-> <<request>> \o later.requests,
                       waits |-> <<backoff_seconds>> \o later.waits]
              ELSE [ret |-> AiNone, requests |-> <<request>>, waits |-> <<>>]
         ELSE [requests |-> <<request>>, waits |-> <<>>,
               ret |-> IF outcome = "empty" THEN AiNone   \* "if not response.text"
                       ELSE ParseContent(outcome)]

\* the answers of OpenRouter to the POST
OpenRouterResponses ==
    { [status |-> st, body |-> "no_json"] : st \in {"timeout", "error", "429", "500"} }
    \cup { [status |-> "200", body |-> b] :
             b \in {"no_json", "no_choices", "malformed_choice"} \cup ContentKinds }

\* what generate_content does at one attempt
GeminiOutcomes == {"raises", "empty"} \cup ContentKinds

ExplainerIdle ==
    /\ ai_config = [openrouter_key |-> FALSE, gemini_ready |-> FALSE]
    /\ ai_log = <<>>

ExplainerInit ==
    /\ ai_config \in [openrouter_key : BOOLEAN, gemini_ready : BOOLEAN]
    /\ ai_log = <<>>

\* a call _call_openrouter_api(prompt) while the service answers resp
CallOpenRouter(resp) ==
    /\ Len(ai_log) < MaxExplainerCalls
    /\ LET r == _call_openrouter_api(ai_config.openrouter_key, resp)
       IN ai_log' = Append(ai_log, [provider |-> "openrouter", ret |-> r.ret,
                                    requests |-> r.requests, waits |-> r.waits,
                                    outcomes |-> <<>>])
    /\ UNCHANGED <<ai_config, gvars, cvars, vvars, svars, tvars, avars, zvars>>

\* a call _call_gemini_api(prompt) while the attempts end as outcomes; the
\* log keeps the outcomes of the attempts made
CallGemini(outcomes) ==
    /\ Len(ai_log) < MaxExplainerCalls
    /\ LET r == _call_gemini_api(0, ai_config.gemini_ready, outcomes)
       IN ai_log' = Append(ai_log, [provider |-> "gemini", ret |-> r.ret,
                                    requests |-> r.requests, waits |-> r.waits,
                                    outcomes |-> SubSeq(outcomes, 1, Len(r.requests))])
    /\ UNCHANGED <<ai_config, gvars, cvars, vvars, svars, tvars, avars, zvars>>

----------------------------------------------------------------------------
(* The inputs of is_proper_noun *)

\* a token as is_proper_noun reads it: token.get(key, default) for the four
\* keys, a missing key being its default ('' or [])
PnTok(surface, pos, details, rawPos) ==
    [surface |-> surface, partOfSpeech |-> pos, posDetails |-> details,
     rawPos |-> rawPos]

\* names and loanwords with and without a proper-noun tag, a tag in the main
\* tag or the raw tag only, one katakana character, a mixed-script surface,
\* an empty surface
ProperNounTokens ==
    { PnTok(TAKAGI, POS_MEISHI, <<POS_MEISHI, KOYUUMEISHI, JINMEI, SEI>>, POS_MEISHI),
      PnTok(TAKAGI, POS_MEISHI, <<POS_MEISHI, IPPAN>>, POS_MEISHI),
      PnTok(KOOHII, POS_MEISHI, <<POS_MEISHI, IPPAN>>, POS_MEISHI),
      PnTok(KOOHII, POS_MEISHI, <<POS_MEISHI, KOYUUMEISHI>>, POS_MEISHI),
      PnTok(<<"KO", "CHOUON">>, POS_MEISHI, <<POS_MEISHI, IPPAN>>, POS_MEISHI),
      PnTok(<<"KA">>, POS_MEISHI, <<POS_MEISHI, IPPAN>>, POS_MEISHI),
      PnTok(<<"TA", "kanji">>, POS_MEISHI, <<POS_MEISHI, IPPAN>>, POS_MEISHI),
      PnTok(<<>>, <<>>, <<>>, <<>>),
      PnTok(W_WATASHI, POS_MEISHI, <<POS_MEISHI, IPPAN>>, POS_MEISHI),
      PnTok(W_WATASHI, POS_MEISHI, <<POS_MEISHI, SOSHIKIMEI>>, POS_MEISHI),
      PnTok(W_WATASHI, JINMEI, <<>>, <<>>),
      PnTok(W_WATASHI, POS_MEISHI, <<>>, POS_MEISHI \o <<",">> \o CHIMEI),
      PnTok(W_WATASHI, SOSHIKIMEI, <<>>, <<>>),
      PnTok(W_WATASHI, POS_MEISHI, <<>>, POS_MEISHI \o <<",">> \o SOSHIKIMEI) }

ProperNounIdle == pn_log = <<>>

ProperNounInit == pn_log = <<>>

\* a call is_proper_noun(token)
CallIsProperNoun(token) ==
    /\ Len(pn_log) < MaxProperNounCalls
    /\ pn_log' = Append(pn_log, [token |-> token, ret |-> is_proper_noun(token)])
    /\ UNCHANGED <<gvars, cvars, vvars, svars, tvars, avars, xvars, kvars, yvars>>

----------------------------------------------------------------------------
(* ai_explainer.py: the explanation cache and generate_ai_explanation *)

CACHE_TTL_HOURS == 24

\* the index of cache_key in _cache_data, 0 when it is not a key
IndexOfKey(cache, cache_key) ==
    IF \E i \in DOMAIN cache : cache[i].key = cache_key
    THEN CHOOSE i \in DOMAIN cache : cache[i].key = cache_key
    ELSE 0

\* del _cache_data[the key at index i]
DelAt(cache, i) == SubSeq(cache, 1, i - 1) \o SubSeq(cache, i + 1, Len(cache))

\* a dict is true when it is not empty; the explanations and the fallback
\* are not empty
AiTruthy(x) == x.kind # "None"

\* _get_from_cache with the age taken as cache_time - now
_get_from_cache_ReversedAge(cache, cache_key, now) ==
    LET i == IndexOfKey(cache, cache_key) IN
    IF i = 0 THEN [ret |-> AiNone, cache |-> cache]
    ELSE IF cache[i].timestamp - now > CACHE_TTL_HOURS
    THEN [ret |-> AiNone, cache |-> DelAt(cache, i)]
    ELSE [ret |-> cache[i].data, cache |-> cache]

\* _get_from_cache(cache_key) at the clock reading now: [ret, cache]
_get_from_cache(cache, cache_key, now) ==
    LET i == IndexOfKey(cache, cache_key) IN
    IF i = 0 THEN [ret |-> AiNone, cache |-> cache]
    ELSE IF now - cache[i].timestamp > CACHE_TTL_HOURS
    THEN [ret |-> AiNone, cache |-> DelAt(cache, i)]
    ELSE [ret |-> cache[i].data, cache |-> cache]

\* min(_cache_data.keys(), key = timestamp): the first key, in the order of
\* the dict, among those with the least timestamp
OldestIndex(cache) ==
    CHOOSE i \in DOMAIN cache :
        /\ \A j \in DOMAIN cache : cache[i].timestamp <= cache[j].timestamp
        /\ \A j \in 1..(i - 1) : cache[j].timestamp > cache[i].timestamp

\* _cache_data[cache_key] = {...}: a key of the dict keeps its place
SetEntry(cache, cache_key, data, now) ==
    LET i == IndexOfKey(cache, cache_key)
        entry == [key |-> cache_key, data |-> data, timestamp |-> now]
    IN IF i = 0 THEN Append(cache, entry) ELSE [cache EXCEPT ![i] = entry]

\* _save_to_cache with the test len(_cache_data) > CACHE_MAX_SIZE
_save_to_cache_EvictWhenOver(cache, cache_key, data, now) ==
    LET kept == IF Len(cache) > CacheCapacity
                THEN DelAt(cache, OldestIndex(cache))
                ELSE cache
    IN SetEntry(kept, cache_key, data, now)

\* _save_to_cache(cache_key, data) at the clock reading now: the cache after
_save_to_cache(cache, cache_key, data, now) ==
    LET kept == IF Len(cache) >= CacheCapacity
                THEN DelAt(cache, OldestIndex(cache))
                ELSE cache
    IN SetEntry(kept, cache_key, data, now)

\* generate_ai_explanation for the analysis hashed to cache_key:
\* [ret, cache, asked]; result is what the caller of the provider returns,
\* asked tells whether it was called
generate_ai_explanation(provider, cache, cache_key, now, result) ==
    IF provider \notin {"gemini", "openrouter"}
    THEN [ret |-> AiNone, cache |-> cache, asked |-> FALSE]
    ELSE
      LET cached == _get_from_cache(cache, cache_key, now) IN
      IF AiTruthy(cached.ret)
      THEN [ret |-> cached.ret, cache |-> cached.cache, asked |-> FALSE]
      ELSE IF AiTruthy(result)
      THEN [ret |-> result,
            cache |-> _save_to_cache(cached.cache, cache_key, result, now),
            asked |-> TRUE]
      ELSE [ret |-> AiNone, cache |-> cached.cache, asked |-> TRUE]

\* the keys of the analyses: md5 digests, three of them
CacheKeys == {"k1", "k2", "k3"}

\* the steps of the clock between two operations, in hours
ClockSteps == {12, 13}

\* the keys of recency that are still in the cache, then key as the newest
Touch(recency, cache, key) ==
    SelectSeq(recency, LAMBDA k : k # key /\ IndexOfKey(cache, k) # 0)
      \o (IF IndexOfKey(cache, key) # 0 THEN <<key>> ELSE <<>>)

\* the keys of recency that are still in the cache
Forget(recency, cache) == SelectSeq(recency, LAMBDA k : IndexOfKey(cache, k) # 0)

\* the least recently used key, "none" for an empty cache
LeastRecent(recency) == IF recency = <<>> THEN "none" ELSE Head(recency)

NoOperation ==
    [op |-> "none", key |-> "none", ret |-> AiNone, before |-> <<>>,
     asked |-> FALSE, lru |-> "none", at |-> 0]

CacheIdle ==
    /\ ai_provider = "none"
    /\ ai_cache = <<>>
    /\ ai_now = 0
    /\ ai_recency = <<>>
    /\ ai_last = NoOperation

\* the module is imported: _cache_data = {}
CacheInit ==
    /\ ai_provider \in {"none", "openrouter", "gemini"}
    /\ ai_cache = <<>>
    /\ ai_now = 0
    /\ ai_recency = <<>>
    /\ ai_last = NoOperation

\* time passes between two operations
Advance(d) ==
    /\ ai_now + d <= MaxClock
    /\ ai_now' = ai_now + d
    /\ UNCHANGED <<ai_provider, ai_cache, ai_recency, ai_last, pn_log, yvars,
                   gvars, cvars, vvars, svars, tvars, avars, xvars>>

\* a call _get_from_cache(cache_key)
CallGetFromCache(cache_key) ==
    /\ \E r \in { _get_from_cache(ai_cache, cache_key, ai_now) } :
          /\ ai_cache' = r.cache
          /\ ai_recency' = IF AiTruthy(r.ret) THEN Touch(ai_recency, r.cache, cache_key)
                           ELSE Forget(ai_recency, r.cache)
          /\ ai_last' = [op |-> "get", key |-> cache_key, ret |-> r.ret,
                         before |-> ai_cache, asked |-> FALSE,
                         lru |-> LeastRecent(ai_recency), at |-> ai_now]
    /\ UNCHANGED <<ai_provider, ai_now, pn_log, yvars,
                   gvars, cvars, vvars, svars, tvars, avars, xvars>>

\* a call _save_to_cache(cache_key, data)
CallSaveToCache(cache_key, data) ==
    /\ \E c \in { _save_to_cache(ai_cache, cache_key, data, ai_now) } :
          /\ ai_cache' = c
          /\ ai_recency' = Touch(ai_recency, c, cache_key)
          /\ ai_last' = [op |-> "save", key |-> cache_key, ret |-> AiNone,
                         before |-> ai_cache, asked |-> FALSE,
                         lru |-> LeastRecent(ai_recency), at |-> ai_now]
    /\ UNCHANGED <<ai_provider, ai_now, pn_log, yvars,
                   gvars, cvars, vvars, svars, tvars, avars, xvars>>

\* a call generate_ai_explanation(...) for the analysis hashed to cache_key,
\* while the provider answers resp (OpenRouter) or outcomes (Gemini)
CallGenerateAiExplanation(cache_key, resp, outcomes) ==
    /\ \E result \in { IF ai_provider = "openrouter"
                       THEN _call_openrouter_api(ai_config.openrouter_key, resp).ret
                       ELSE _call_gemini_api(0, ai_config.gemini_ready, outcomes).ret } :
       \E r \in { generate_ai_explanation(ai_provider, ai_cache, cache_key,
                                          ai_now, result) } :
          /\ ai_cache' = r.cache
          /\ ai_recency' = IF AiTruthy(r.ret) THEN Touch(ai_recency, r.cache, cache_key)
                           ELSE Forget(ai_recency, r.cache)
          /\ ai_last' = [op |-> "explain", key |-> cache_key, ret |-> r.ret,
                         before |-> ai_cache, asked |-> r.asked,
                         lru |-> LeastRecent(ai_recency), at |-> ai_now]
    /\ UNCHANGED <<ai_provider, ai_now, pn_log, yvars,
                   gvars, cvars, vvars, svars, tvars, avars, xvars>>

----------------------------------------------------------------------------
(* jlpt_classifier.py, grammar_detector.py: the two loaders of the tables *)

\* _grammar_patterns = []
NoPatterns == << >>

\* load_grammar_patterns: [ret |-> the list returned, cache |-> _grammar_patterns after]
load_grammar_patterns(cache, file) ==
    IF cache # <<>>                         \* "if _grammar_patterns:" a non-empty list
    THEN [ret |-> cache, cache |-> cache]
    ELSE IF file.status = "ok"
    THEN [ret |-> file.data, cache |-> file.data]
    ELSE [ret |-> NoPatterns, cache |-> cache]  \* FileNotFoundError, JSONDecodeError

\* data/jlpt_vocab.json: a table with words, the five empty lists, the
\* empty object, no file, a file that is not JSON
LoadJlptFiles ==
    { [status |-> "ok",
       data |-> [l \in LevelSet |-> IF l = "N5" THEN {W_WATASHI} ELSE {}]],
      [status |-> "ok", data |-> EmptyTable],
      [status |-> "ok", data |-> NoTable],
      [status |-> "missing", data |-> NoTable],
      [status |-> "malformed", data |-> NoTable] }

\* data/grammar_patterns.json: a list with one pattern, the empty list, no
\* file, a file that is not JSON
LoadGrammarFiles ==
    { [status |-> "ok", data |-> << [pattern |-> "te_imasu", jlptLevel |-> "N5"] >>],
      [status |-> "ok", data |-> NoPatterns],
      [status |-> "missing", data |-> NoPatterns],
      [status |-> "malformed", data |-> NoPatterns] }

LoadIdle ==
    /\ gp_file = [status |-> "missing", data |-> NoPatterns]
    /\ gp_patterns = NoPatterns
    /\ ld_log = <<>>

\* the two modules are imported: _jlpt_vocab = {}, _grammar_patterns = []
LoadInit ==
    /\ jlpt_file \in LoadJlptFiles
    /\ jlpt_vocab = NoTable
    /\ cw_log = <<>>
    /\ gp_file \in LoadGrammarFiles
    /\ gp_patterns = NoPatterns
    /\ ld_log = <<>>

\* a call load_jlpt_data(); the file is opened unless the guard returns
CallLoadJlptData ==
    /\ Len(ld_log) < MaxLoadCalls
    /\ \E r \in { load_jlpt_data(jlpt_vocab, jlpt_file) } :
          /\ jlpt_vocab' = r.cache
          /\ ld_log' = Append(ld_log, [fn |-> "load_jlpt_data",
                                       opened |-> (DOMAIN jlpt_vocab = {}),
                                       ret |-> r.ret, cached |-> r.cache])
    /\ UNCHANGED <<jlpt_file, cw_log, gp_file, gp_patterns,
                   gvars, vvars, svars, tvars, avars, xvars, pn_log, kvars, rvars>>

\* a call load_grammar_patterns(); the file is opened unless the guard returns
CallLoadGrammarPatterns ==
    /\ Len(ld_log) < MaxLoadCalls
    /\ \E r \in { load_grammar_patterns(gp_patterns, gp_file) } :
          /\ gp_patterns' = r.cache
          /\ ld_log' = Append(ld_log, [fn |-> "load_grammar_patterns",
                                       opened |-> (gp_patterns = <<>>),
                                       ret |-> r.ret, cached |-> r.cache])
    /\ UNCHANGED <<gp_file, cvars,
                   gvars, vvars, svars, tvars, avars, xvars, pn_log, kvars, rvars>>

----------------------------------------------------------------------------
(* translator.py: two calls of translate_to_french, statement by statement *)

\* the two calls
RaceCalls == {1, 2}

\* the word both calls resolve: 私, in neither COMMON_WORDS_FR nor the cache
RaceWord == W_WATASHI

\* the locals of a call: the statement it is at, the dict object held by
\* its local cache (0 before load_cache returns), the translation found,
\* the value returned, and what DeepL and Jisho answered it
RaceLocals(pc, cache, translation, ret, deepl, jisho) ==
    [pc |-> pc, cache |-> cache, translation |-> translation, ret |-> ret,
     deepl |-> deepl, jisho |-> jisho]

\* what a service does with the request of a call
RaceDeeplResponses ==
    { Response("timeout", DeeplNoJson),
      Response("200", DeeplBody(<< [text |-> Str(<<"etude">>)] >>)) }

RaceJishoResponses ==
    { Response("timeout", JishoNoJson),
      Response("200",
         JishoBody(<< [senses |-> << [english_definitions |-> <<"study">>] >>] >>)) }

RaceIdle ==
    /\ rc_heap = <<>>
    /\ rc_global = 0
    /\ rc_proc = <<>>

\* the module is imported (_translation_cache is an empty dict), or an
\* earlier call has loaded the cache file into it; both calls are entered
RaceInit ==
    /\ tr_cache_file \in CacheFiles
    /\ tr_cache \in { NoTable, load_cache(NoTable, tr_cache_file) }
    /\ rc_heap = << tr_cache >>
    /\ rc_global = 1
    /\ tr_modified = FALSE
    /\ tr_vocab = NoTable
    /\ tr_vocab_file \in DictionaryFiles
    /\ tr_key \in BOOLEAN
    /\ tr_log = <<>>
    /\ rc_proc = [p \in RaceCalls |-> RaceLocals("start", 0, None, None, "none", "none")]

\* the globals and the locals of call p after a statement; tr_cache is the
\* content of the object _translation_cache refers to
RaceUpdate(p, heap, global, modified, vocab, locals) ==
    /\ rc_heap' = heap
    /\ rc_global' = global
    /\ tr_cache' = heap[global]
    /\ tr_modified' = modified
    /\ tr_vocab' = vocab
    /\ rc_proc' = [rc_proc EXCEPT ![p] = locals]
    /\ UNCHANGED <<tr_cache_file, tr_vocab_file, tr_key, tr_log,
                   gvars, cvars, vvars, svars, avars, xvars, pn_log, kvars, lvars>>

\* the locals of call p at the statement pc
At(p, pc) == [rc_proc[p] EXCEPT !.pc = pc]

\* "if word in COMMON_WORDS_FR": not for this word; load_cache is entered
RacePriorityTest(p) ==
    /\ rc_proc[p].pc = "start"
    /\ RaceWord \notin DOMAIN COMMON_WORDS_FR
    /\ RaceUpdate(p, rc_heap, rc_global, tr_modified, tr_vocab, At(p, "load_guard"))

\* load_cache: "if _translation_cache:"
RaceLoadGuard(p) ==
    /\ rc_proc[p].pc = "load_guard"
    /\ RaceUpdate(p, rc_heap, rc_global, tr_modified, tr_vocab,
                  At(p, IF DOMAIN rc_heap[rc_global] # {} THEN "load_return"
                        ELSE "load_file"))

\* load_cache: _translation_cache = json.load(f), or {} without a readable
\* file; in both cases a new dict object
RaceLoadFile(p) ==
    /\ rc_proc[p].pc = "load_file"
    /\ RaceUpdate(p, Append(rc_heap, load_cache(NoTable, tr_cache_file)),
                  Len(rc_heap) + 1, tr_modified, tr_vocab, At(p, "load_return"))

\* load_cache: "return _translation_cache", bound to the local cache
RaceLoadReturn(p) ==
    /\ rc_proc[p].pc = "load_return"
    /\ RaceUpdate(p, rc_heap, rc_global, tr_modified, tr_vocab,
                  [At(p, "cache_test") EXCEPT !.cache = rc_global])

\* "if word in cache: return cache[word]"
RaceCacheTest(p) ==
    /\ rc_proc[p].pc = "cache_test"
    /\ RaceUpdate(p, rc_heap, rc_global, tr_modified, tr_vocab,
                  IF RaceWord \in DOMAIN rc_heap[rc_proc[p].cache]
                  THEN [At(p, "done") EXCEPT
                          !.ret = rc_heap[rc_proc[p].cache][RaceWord]]
                  ELSE At(p, "dictionary"))

\* strategy 3 up to "translation = vocab_dict[word]"
RaceDictionary(p) ==
    /\ rc_proc[p].pc = "dictionary"
    /\ \E ld \in { load_vocabulary_dictionary(tr_vocab, tr_vocab_file) } :
          RaceUpdate(p, rc_heap, rc_global, tr_modified, ld.cache,
                     IF ~ld.raised /\ RaceWord \in DOMAIN ld.ret
                     THEN [At(p, "write_cache") EXCEPT !.translation = ld.ret[RaceWord]]
                     ELSE At(p, "deepl"))

\* strategy 4 up to "if deepl_translation:", the service answering resp
RaceDeepl(p, resp) ==
    /\ rc_proc[p].pc = "deepl"
    /\ tr_key
    /\ \E dr \in { translate_with_deepl(tr_key, resp) } :
          RaceUpdate(p, rc_heap, rc_global, tr_modified, tr_vocab,
                     IF Truthy(dr.ret)
                     THEN [At(p, "write_cache") EXCEPT !.translation = dr.ret,
                                                       !.deepl = resp.status]
                     ELSE [At(p, "jisho") EXCEPT !.deepl = resp.status])

\* strategy 4 without a key
RaceNoDeepl(p) ==
    /\ rc_proc[p].pc = "deepl"
    /\ ~tr_key
    /\ RaceUpdate(p, rc_heap, rc_global, tr_modified, tr_vocab, At(p, "jisho"))

\* strategy 5 up to the translation, or the placeholder returned
RaceJisho(p, resp) ==
    /\ rc_proc[p].pc = "jisho"
    /\ \E jr \in { get_jisho_translation(resp) } :
          RaceUpdate(p, rc_heap, rc_global, tr_modified, tr_vocab,
                     IF Truthy(jr.ret)
                     THEN [At(p, "write_cache") EXCEPT
                             !.translation = Str(jr.ret.v \o <<" (EN)">>),
                             !.jisho = resp.status]
                     ELSE [At(p, "done") EXCEPT !.ret = PLACEHOLDER,
                                                !.jisho = resp.status])

\* "cache[word] = translation"
RaceWriteCache(p) ==
    /\ rc_proc[p].pc = "write_cache"
    /\ RaceUpdate(p, [rc_heap EXCEPT ![rc_proc[p].cache] =
                         Put(@, RaceWord, rc_proc[p].translation)],
                  rc_global, tr_modified, tr_vocab, At(p, "write_global"))

\* "_translation_cache[word] = translation"
RaceWriteGlobal(p) ==
    /\ rc_proc[p].pc = "write_global"
    /\ RaceUpdate(p, [rc_heap EXCEPT ![rc_global] =
                         Put(@, RaceWord, rc_proc[p].translation)],
                  rc_global, tr_modified, tr_vocab, At(p, "set_modified"))

\* "_cache_modified = True" and "return translation"
RaceReturn(p) ==
    /\ rc_proc[p].pc = "set_modified"
    /\ RaceUpdate(p, rc_heap, rc_global, TRUE, tr_vocab,
                  [At(p, "done") EXCEPT !.ret = rc_proc[p].translation])

\* the components added last are not in use
LaterIdle == ProperNounIdle /\ CacheIdle /\ LoadIdle /\ RaceIdle

RestIdle ==
    SentenceIdle /\ TranslatorIdle /\ AnalyzeIdle /\ ExplainerIdle /\ LaterIdle

----------------------------------------------------------------------------
(* Specifications *)

\* the grammar detector on every input within MaxInput
Init == GrammarInit /\ ClassifierIdle /\ VocabIdle /\ RestIdle

Next ==
    \/ CallDetectPatterns
    \/ CallDetectParticles

Spec == Init /\ [][Next]_vars

\* classify_word on every data file, MaxCalls calls
InitClassify == GrammarIdle /\ ClassifierInit /\ VocabIdle /\ RestIdle

NextClassify == \E w \in ClassifyWords : CallClassifyWord(w)

SpecClassify == InitClassify /\ [][NextClassify]_vars

\* extract_vocabulary on every token list within MaxVocabTokens
InitVocab ==
    /\ GrammarIdle
    /\ jlpt_file \in VocabFiles
    /\ jlpt_vocab = NoTable
    /\ cw_log = <<>>
    /\ VocabInit
    /\ RestIdle

NextVocab == CallExtractVocabulary

SpecVocab == InitVocab /\ [][NextVocab]_vars

\* classify_sentence on every vocabulary within MaxSentenceVocab and every
\* token count within MaxSentenceTokens
InitSentence ==
    GrammarIdle /\ ClassifierIdle /\ VocabIdle /\ SentenceInit /\ TranslatorIdle
    /\ AnalyzeIdle /\ ExplainerIdle /\ LaterIdle

NextSentence == CallClassifySentence

SpecSentence == InitSentence /\ [][NextSentence]_vars

\* translate_to_french, MaxTranslateCalls calls, on every file state and
\* every answer of the services
InitTranslate ==
    GrammarIdle /\ ClassifierIdle /\ VocabIdle /\ SentenceIdle /\ TranslatorInit
    /\ AnalyzeIdle /\ ExplainerIdle /\ LaterIdle

NextTranslate ==
    \/ \E word \in TranslateWords, use_jisho \in BOOLEAN :
          \E deepl \in ResponsesIf(tr_key, DeeplResponses, DeeplNoJson),
             jisho \in ResponsesIf(use_jisho, JishoResponses, JishoNoJson) :
             CallTranslate(word, use_jisho, deepl, jisho)
    \/ \E written \in BOOLEAN : CallSaveCache(written)

SpecTranslate == InitTranslate /\ [][NextTranslate]_vars

\* analyze_text on every text within MaxAnalyzeChunks, whatever the tagger
\* does, with and without DeepL key
InitAnalyze ==
    /\ GrammarIdle /\ ClassifierIdle /\ VocabIdle /\ SentenceIdle
    /\ tr_cache = NoTable
    /\ tr_modified = FALSE
    /\ tr_cache_file = [status |-> "missing", data |-> NoTable]
    /\ tr_vocab = NoTable
    /\ tr_vocab_file = [status |-> "missing", data |-> NoTable]
    /\ tr_key \in BOOLEAN
    /\ tr_log = <<>>
    /\ AnalyzeInit
    /\ ExplainerIdle /\ LaterIdle

NextAnalyze ==
    \E deepl \in ResponsesIf(tr_key, SentenceResponses, DeeplNoJson) :
        CallAnalyzeText(deepl)

SpecAnalyze == InitAnalyze /\ [][NextAnalyze]_vars

\* every network call of the backend: translate_to_french (DeepL, Jisho)
\* with and without DeepL key, and one call of an AI caller with its
\* provider configured
InitNetwork ==
    /\ GrammarIdle /\ ClassifierIdle /\ VocabIdle /\ SentenceIdle
    /\ tr_cache = NoTable
    /\ tr_modified = FALSE
    /\ tr_cache_file = [status |-> "missing", data |-> NoTable]
    /\ tr_vocab = NoTable
    /\ tr_vocab_file = [status |-> "missing", data |-> NoTable]
    /\ tr_key \in BOOLEAN
    /\ tr_log = <<>>
    /\ AnalyzeIdle
    /\ ai_config = [openrouter_key |-> TRUE, gemini_ready |-> TRUE]
    /\ ai_log = <<>>
    /\ LaterIdle

NextNetwork ==
    \/ \E word \in TranslateWords, use_jisho \in BOOLEAN :
          \E deepl \in ResponsesIf(tr_key, DeeplResponses, DeeplNoJson),
             jisho \in ResponsesIf(use_jisho, JishoResponses, JishoNoJson) :
             CallTranslate(word, use_jisho, deepl, jisho)
    \/ ai_log = <<>> /\ \E resp \in OpenRouterResponses : CallOpenRouter(resp)
    \/ ai_log = <<>> /\ \E outcomes \in [1..(MAX_RETRIES + 1) -> GeminiOutcomes] :
                            CallGemini(outcomes)

SpecNetwork == InitNetwork /\ [][NextNetwork]_vars

\* the two callers of the AI providers on every configuration and every
\* outcome of the attempts
InitExplainer ==
    /\ GrammarIdle /\ ClassifierIdle /\ VocabIdle /\ SentenceIdle
    /\ TranslatorIdle /\ AnalyzeIdle
    /\ ExplainerInit
    /\ LaterIdle

NextExplainer ==
    \/ \E resp \in OpenRouterResponses : CallOpenRouter(resp)
    \/ \E outcomes \in [1..(MAX_RETRIES + 1) -> GeminiOutcomes] : CallGemini(outcomes)

SpecExplainer == InitExplainer /\ [][NextExplainer]_vars

\* answers of the provider that end in an explanation and in None
CacheResponses ==
    { [status |-> "200", body |-> "valid"], [status |-> "timeout", body |-> "no_json"] }

CacheOutcomes == {"valid", "raises"}

\* the explanation cache and generate_ai_explanation with the keys of the
\* providers configured, over CacheKeys and the clock up to MaxClock
InitCache ==
    /\ GrammarIdle /\ ClassifierIdle /\ VocabIdle /\ SentenceIdle
    /\ TranslatorIdle /\ AnalyzeIdle
    /\ CacheInit
    /\ ai_config = [openrouter_key |-> TRUE, gemini_ready |-> ai_provider = "gemini"]
    /\ ai_log = <<>>
    /\ ProperNounIdle
    /\ LoadIdle /\ RaceIdle

NextCache ==
    \/ \E d \in ClockSteps : Advance(d)
    \/ \E cache_key \in CacheKeys : CallGetFromCache(cache_key)
    \/ \E cache_key \in CacheKeys : CallSaveToCache(cache_key, AiData)
    \/ \E cache_key \in CacheKeys :
          \E resp \in IF ai_provider = "openrouter" THEN CacheResponses
                       ELSE {[status |-> "error", body |-> "no_json"]},
             o \in IF ai_provider = "gemini" THEN CacheOutcomes ELSE {"raises"} :
             CallGenerateAiExplanation(cache_key, resp,
                                       [i \in 1..(MAX_RETRIES + 1) |-> o])

SpecCache == InitCache /\ [][NextCache]_vars

\* the two loaders and classify_word on every data file of LoadJlptFiles
\* and LoadGrammarFiles, MaxLoadCalls calls of the loaders
InitLoad ==
    /\ GrammarIdle /\ VocabIdle /\ SentenceIdle
    /\ TranslatorIdle /\ AnalyzeIdle /\ ExplainerIdle
    /\ LoadInit
    /\ ProperNounIdle /\ CacheIdle /\ RaceIdle

NextLoad ==
    \/ CallLoadJlptData
    \/ CallLoadGrammarPatterns
    \/ \E w \in ClassifyWords : CallClassifyWord(w)

SpecLoad == InitLoad /\ [][NextLoad]_vars

\* two calls translate_to_french(私) interleaved statement by statement, on
\* every cache file, dictionary file and answer of the services
InitRace ==
    /\ GrammarIdle /\ ClassifierIdle /\ VocabIdle /\ SentenceIdle
    /\ AnalyzeIdle /\ ExplainerIdle
    /\ RaceInit
    /\ ProperNounIdle /\ CacheIdle /\ LoadIdle

NextRace ==
    \E p \in RaceCalls :
        \/ RacePriorityTest(p)
        \/ RaceLoadGuard(p)
        \/ RaceLoadFile(p)
        \/ RaceLoadReturn(p)
        \/ RaceCacheTest(p)
        \/ RaceDictionary(p)
        \/ \E resp \in RaceDeeplResponses : RaceDeepl(p, resp)
        \/ RaceNoDeepl(p)
        \/ \E resp \in RaceJishoResponses : RaceJisho(p, resp)
        \/ RaceWriteCache(p)
        \/ RaceWriteGlobal(p)
        \/ RaceReturn(p)

SpecRace == InitRace /\ [][NextRace]_vars

\* is_proper_noun on the tokens of ProperNounTokens, MaxProperNounCalls calls
InitProperNoun ==
    /\ GrammarIdle /\ ClassifierIdle /\ VocabIdle /\ SentenceIdle
    /\ TranslatorIdle /\ AnalyzeIdle /\ ExplainerIdle
    /\ ProperNounInit
    /\ CacheIdle
    /\ LoadIdle /\ RaceIdle

NextProperNoun == \E token \in ProperNounTokens : CallIsProperNoun(token)

SpecProperNoun == InitProperNoun /\ [][NextProperNoun]_vars

----------------------------------------------------------------------------
(* Properties of the grammar detector *)

PatternsOf(dets) == { dets[i].pattern : i \in DOMAIN dets }

\* the offsets (from 0) at which a literal of lits occurs in t, with its length
Occurrences(t, lits) ==
    { <<i, Len(p)>> : i \in { k \in 0..Len(t) : \E q \in lits : OccursAt(t, q, k) },
                      p \in lits } \cap
    { o \in (0..Len(t)) \X (1..Len(t)) :
        \E q \in lits : Len(q) = o[2] /\ OccursAt(t, q, o[1]) }

\* occurrence o lies within occurrence w
Within(o, w) == w[1] <= o[1] /\ o[1] + o[2] <= w[1] + w[2]

\* no regex literal occurs in the text
NoRegexTrigger(t) ==
    ~re_search({MASENKA, NAKEREBANARANAI, NAKYA, TEIMASU, TEIRU, MASHITA, MASEN,
                MASU, DESHITA, DESU, TAI, TA, NAI, DESHOU, SOUDESU, MADE, YOUNI,
                TE, SURU}
               \cup TeDe(MOII) \cup TeDe(KUDASAI) \cup TeDe(<<"ru">>), t)

\* no token is a particle of the table, and the text holds no よね
NoParticleTrigger(t, toks) ==
    /\ \A i \in DOMAIN toks :
          ~(IsParticlePos(toks[i].partOfSpeech)
            /\ toks[i].surface \in DOMAIN particle_info)
    /\ ~Contains(t, YONE)

\* C1: detect_patterns returns at least one entry for every text and token
\* list; when no regex rule and no particle rule has anything to emit the
\* result is exactly the entry "Phrase simple", and that entry never stands
\* beside another one.
C1_NeverEmpty ==
    gpc = "patterns" =>
        /\ Len(detected) >= 1
        /\ (NoRegexTrigger(text) /\ NoParticleTrigger(text, tokens)
              => detected = << Entry(P_SIMPLE, "N5") >>)
        /\ (P_SIMPLE \in PatternsOf(detected) => Len(detected) = 1)

C1_Witness ==
    /\ gpc = "patterns"
    /\ text # <<>>
    /\ tokens # <<>>
    /\ detected = << Entry(P_SIMPLE, "N5") >>

\* the pairs of C2: <<pattern of the shorter entry, its literals,
\*                    pattern of the longer entry, its literals>>
ContainmentPairs ==
    { <<P(TE), {TE}, P(TEIMASU), {TEIMASU}>>,
      <<P(TE), {TE}, P(TE \o KUDASAI), {TE \o KUDASAI}>>,
      <<P(TE), {TE}, P(TE \o MOII), {TE \o MOII}>>,
      <<P(TA), {TA}, P(MASHITA), {MASHITA}>>,
      <<P(TA), {TA}, P(DESHITA), {DESHITA}>>,
      <<P(TA), {TA}, P(TAI), {TAI}>>,
      <<P(NAI), {NAI}, P(NAKEREBANARANAI), {NAKEREBANARANAI}>>,
      <<P(MASEN), {MASEN}, P(MASENKA), {MASENKA}>>,
      <<<<"ka">>, {<<"ka">>}, P(MASENKA), {MASENKA}>>,
      <<<<"de">>, {<<"de">>}, P(DESU), {DESU}>> }

\* both entries of the pair are in the result although the shorter trigger
\* occurs in the text only inside occurrences of the longer one
SameOccurrencePair(pr) ==
    /\ pr[1] \in PatternsOf(detected)
    /\ pr[3] \in PatternsOf(detected)
    /\ Occurrences(text, pr[2]) # {}
    /\ \A o \in Occurrences(text, pr[2]) :
          \E w \in Occurrences(text, pr[4]) : Within(o, w)

\* C2: the result of detect_patterns never holds two entries where the
\* trigger of one is a strict substring of the trigger of the other for the
\* same occurrence in the text.
C2_NoContainedPair ==
    gpc = "patterns" => \A pr \in ContainmentPairs : ~SameOccurrencePair(pr)

C2_FailingInput ==
    /\ gpc = "patterns"
    /\ text = DESHITA
    /\ PatternsOf(detected) = { P(DESHITA), P(TA) }

\* C3: for every text that contains ています the result holds the entry
\* ～ています and none of ～て, ～ている and ～てる.
C3_ProgressivePolite ==
    gpc = "patterns" /\ Contains(text, TEIMASU) =>
        /\ P(TEIMASU) \in PatternsOf(detected)
        /\ PatternsOf(detected) \cap { P(TE), P(TEIRU), P(<<"te", "ru">>) } = {}

\* a text with ています and, elsewhere, てる
C3_Witness ==
    /\ gpc = "patterns"
    /\ Contains(text, TEIMASU)
    /\ Contains(text, <<"te", "ru">>)
    /\ P(TEIMASU) \in PatternsOf(detected)

\* C4: for every text that contains なければならない the result holds the
\* obligation entry and not the plain negative entry ～ない.
C4_Obligation ==
    gpc = "patterns" /\ Contains(text, NAKEREBANARANAI) =>
        /\ P(NAKEREBANARANAI) \in PatternsOf(detected)
        /\ P(NAI) \notin PatternsOf(detected)

\* a text with なければならない and a second ない outside it
C4_Witness ==
    /\ gpc = "patterns"
    /\ Contains(text, NAKEREBANARANAI)
    /\ Cardinality(Occurrences(text, {NAI})) >= 2
    /\ P(NAKEREBANARANAI) \in PatternsOf(detected)

\* C5: for every text that contains ませんか the result holds the invitation
\* entry and not the plain negative-polite entry ～ません.
C5_Invitation ==
    gpc = "patterns" /\ Contains(text, MASENKA) =>
        /\ P(MASENKA) \in PatternsOf(detected)
        /\ P(MASEN) \notin PatternsOf(detected)

\* a text with ませんか and no ました
C5_Witness ==
    /\ gpc = "patterns"
    /\ Contains(text, MASENKA)
    /\ ~Contains(text, MASHITA)
    /\ P(MASENKA) \in PatternsOf(detected)

\* C6: the entry ～ます is in the result only if none of ～ました, ～ません and
\* ～ませんか is.
C6_PlainPoliteOnlyAlone ==
    gpc = "patterns" /\ P(MASU) \in PatternsOf(detected) =>
        PatternsOf(detected) \cap { P(MASHITA), P(MASEN), P(MASENKA) } = {}

C6_FailingInput ==
    /\ gpc = "patterns"
    /\ text = MASENKA \o MASU
    /\ { P(MASENKA), P(MASU) } \subseteq PatternsOf(detected)

\* number of entries of dets with the pattern pat
CountPattern(dets, pat) == Cardinality({ i \in DOMAIN dets : dets[i].pattern = pat })

\* C7: for every text that contains よね and every token list, the particle
\* entries of detect_particles and of detect_patterns hold よね exactly once
\* and hold neither よ nor ね.
C7_CombinedParticle ==
    gpc \in {"particles", "patterns"} /\ Contains(text, YONE) =>
        /\ CountPattern(detected, YONE) = 1
        /\ PatternsOf(detected) \cap { <<"yo">>, <<"ne">> } = {}

C7_FailingInput ==
    /\ gpc = "particles"
    /\ text = YONE
    /\ \E i \in DOMAIN tokens : tokens[i].surface = YONE
    /\ <<"yo">> \in PatternsOf(detected)

\* C8: no two entries of a result of detect_patterns, and none of
\* detect_particles, have the same pattern, however often a token occurs.
C8_DistinctPatterns ==
    gpc \in {"particles", "patterns"} =>
        \A i, j \in DOMAIN detected :
            detected[i].pattern = detected[j].pattern => i = j

\* a token list with the same particle twice
C8_Witness ==
    /\ gpc = "patterns"
    /\ \E i, j \in DOMAIN tokens :
          /\ i # j
          /\ tokens[i] = tokens[j]
          /\ tokens[i].surface \in PatternsOf(detected)

----------------------------------------------------------------------------
(* Properties of the classifier and of the vocabulary extractor *)

\* the table a call reads: the data of the file, or the empty table when
\* the file cannot be read
Snapshot(file) == IF file.status = "ok" THEN file.data ELSE EmptyTable

\* the index of a level in the order N5, N4, N3, N2, N1
LevelIndex(l) == CHOOSE i \in DOMAIN Levels : Levels[i] = l

\* some token of toks passes the content-word, proper-noun and length tests
\* (the first such token is no duplicate)
HasSurvivor(toks) == \E i \in DOMAIN toks : Survives(toks[i], {})

\* C9: when a token survives the filters, extract_vocabulary completes
\* without raising and every entry carries the tier classify_word gives its
\* base form, Unknown for a word of no list.
C9_ExtractClassifies ==
    ev.called /\ HasSurvivor(vtokens) =>
        /\ ev.raised = "none"
        /\ Len(ev.vocabulary) >= 1
        /\ \A i \in DOMAIN ev.vocabulary :
              ev.vocabulary[i].jlptLevel =
                 FirstLevel(ev.vocabulary[i].baseForm, Snapshot(jlpt_file), Levels)

C9_FailingInput ==
    /\ ev.called
    /\ vtokens = << Tok(W_WATASHI, W_WATASHI, POS_MEISHI, <<POS_MEISHI, IPPAN>>) >>
    /\ ev.raised = "TypeError"

\* C10: every call of classify_word returns the easiest level whose list
\* holds the word, Unknown when no list holds it, and two calls with the same
\* word return the same level.
C10_EasiestTier ==
    \A k \in DOMAIN cw_log :
        LET w == cw_log[k].word
            tier == cw_log[k].tier
            holds == { l \in LevelSet : w \in GetLevel(Snapshot(jlpt_file), l) }
        IN /\ (holds = {} => tier = "Unknown")
           /\ (holds # {} =>
                 /\ tier \in holds
                 /\ \A l \in holds : LevelIndex(tier) <= LevelIndex(l))
           /\ \A j \in DOMAIN cw_log : cw_log[j].word = w => cw_log[j].tier = tier

\* a word listed at two levels, classified twice
C10_Witness ==
    /\ Len(cw_log) = 2
    /\ cw_log[1].word = cw_log[2].word
    /\ cw_log[1].tier = "N4"
    /\ cw_log[1].word \in GetLevel(Snapshot(jlpt_file), "N2")

----------------------------------------------------------------------------
(* Properties of classify_sentence *)

\* the number of entries of cs_vocab at level l
CountAt(l) == Cardinality({ i \in DOMAIN cs_vocab : EntryLevel(cs_vocab[i]) = l })

\* total weight of cs_vocab with the weights N1..N5, Unknown = 5, 4, 3, 2, 1, 0
RefTotal ==
    5 * CountAt("N1") + 4 * CountAt("N2") + 3 * CountAt("N3")
      + 2 * CountAt("N4") + CountAt("N5")

\* averageWeight >= k
RefAverageAtLeast(k) == RefTotal >= k * Len(cs_vocab)

\* C11: a vocabulary with at least one N1 entry gives N1, whatever the other
\* entries and the token count.
C11_AnyN1GivesN1 ==
    cs_ret.called /\ CountAt("N1") >= 1 => cs_ret.level = "N1"

\* one N1 entry among easier ones (average weight below 3), long token list
C11_Witness ==
    /\ cs_ret.called
    /\ CountAt("N1") = 1
    /\ Len(cs_vocab) = MaxSentenceVocab
    /\ ~RefAverageAtLeast(3)
    /\ Len(cs_tokens) > MediumSentence
    /\ cs_ret.level = "N1"

C13_DocstringExample ==
    cs_ret.called /\ Len(cs_vocab) = 2 /\ CountAt("N2") = 1 /\ CountAt("N3") = 1
        => cs_ret.level = "N2"

C13_FailingInput ==
    /\ cs_ret.called
    /\ cs_vocab = << [jlptLevel |-> "N2"], [jlptLevel |-> "N3"] >>
    /\ cs_ret.level = "N3"

----------------------------------------------------------------------------
(* Properties of the result list of extract_vocabulary *)

\* the positions of the first surviving occurrence of each base form
SurvivorIndices(toks) ==
    { i \in DOMAIN toks :
        /\ Survives(toks[i], {})
        /\ \A j \in 1..(i - 1) :
              ~(Survives(toks[j], {}) /\ toks[j].baseForm = toks[i].baseForm) }

\* the k-th smallest element of the set of positions S
KthIndex(S, k) == CHOOSE i \in S : Cardinality({ j \in S : j <= i }) = k

BaseFormsOf(vocabulary) == { vocabulary[k].baseForm : k \in DOMAIN vocabulary }

\* C14: extract_vocabulary returns at most 10 entries, no two with the same
\* base form, and they are the first 10 survivors in the order of the first
\* surviving occurrence of each base form.
C14_FirstTenSurvivors ==
    ev.called =>
        /\ ev.raised = "none"
        /\ Len(ev.vocabulary) <= 10
        /\ \A k, n \in DOMAIN ev.vocabulary :
              ev.vocabulary[k].baseForm = ev.vocabulary[n].baseForm => k = n
        /\ Len(ev.vocabulary) = Min(10, Cardinality(SurvivorIndices(vtokens)))
        /\ \A k \in DOMAIN ev.vocabulary :
              ev.vocabulary[k].baseForm =
                 vtokens[KthIndex(SurvivorIndices(vtokens), k)].baseForm

C14_FailingInput ==
    /\ ev.called
    /\ vtokens = << Tok(W_WATASHI, W_WATASHI, POS_MEISHI, <<POS_MEISHI, IPPAN>>),
                    Tok(W_WATASHI, W_WATASHI, POS_MEISHI, <<POS_MEISHI, IPPAN>>) >>
    /\ ev.raised = "TypeError"
    /\ ev.vocabulary = <<>>

\* a noun-tagged token whose surface has at least 2 characters, is all
\* katakana and is not a whitelisted loanword
UnlistedKatakanaNoun(token) ==
    /\ token.partOfSpeech = POS_MEISHI
    /\ Len(token.surface) >= 2
    /\ \A i \in DOMAIN token.surface : token.surface[i] \in KatakanaChars
    /\ token.surface \notin common_loanwords

\* a noun-tagged token whose surface is a whitelisted loanword and that
\* carries no proper-noun sub-tag
PlainLoanwordNoun(token) ==
    /\ token.partOfSpeech = POS_MEISHI
    /\ token.surface \in common_loanwords
    /\ \A tag \in {KOYUUMEISHI, JINMEI, CHIMEI, SOSHIKIMEI} :
          /\ \A k \in DOMAIN token.posDetails : ~Contains(token.posDetails[k], tag)
          /\ ~Contains(token.rawPos, tag)

\* C15: no entry of extract_vocabulary comes from an all-katakana noun
\* outside the whitelist, and a whitelisted loanword noun without
\* proper-noun sub-tag is kept (its base form is in the result when it
\* stands within the first 10 tokens, where the cap cannot drop it).
C15_KatakanaFilter ==
    ev.called =>
        /\ ev.raised = "none"
        /\ \A i \in DOMAIN vtokens :
              UnlistedKatakanaNoun(vtokens[i]) =>
                 \/ vtokens[i].baseForm \notin BaseFormsOf(ev.vocabulary)
                 \/ \E j \in DOMAIN vtokens :
                       /\ vtokens[j].baseForm = vtokens[i].baseForm
                       /\ ~UnlistedKatakanaNoun(vtokens[j])
        /\ \A i \in DOMAIN vtokens :
              PlainLoanwordNoun(vtokens[i]) /\ i <= VocabularyCap =>
                 vtokens[i].baseForm \in BaseFormsOf(ev.vocabulary)

C15_FailingInput ==
    /\ ev.called
    /\ vtokens = << Tok(KOOHII, KOOHII, POS_MEISHI, <<POS_MEISHI, IPPAN>>) >>
    /\ ev.raised = "TypeError"
    /\ ev.vocabulary = <<>>

----------------------------------------------------------------------------
(* Properties of the translator *)

\* the source that answered a call: the last one consulted
AnsweredBy(call) == call.trace[Len(call.trace)]

\* the position of a source in the order priority table, cache, static
\* dictionary, remote dictionary (Jisho), machine translation (DeepL),
\* placeholder
ClaimedRank(source) ==
    CASE source = "priority" -> 1 [] source = "cache" -> 2
      [] source = "dictionary" -> 3 [] source = "jisho" -> 4
      [] source = "deepl" -> 5 [] source = "placeholder" -> 6

\* C16: every call consults its sources in the order priority table, cache,
\* static dictionary, Jisho, DeepL, placeholder: Jisho is attempted before
\* DeepL, and nothing is consulted after the source that answered.
C16_SourceOrder ==
    \A k \in DOMAIN tr_log :
        LET call == tr_log[k]
        IN /\ \A i, j \in DOMAIN call.trace :
                 i < j => ClaimedRank(call.trace[i]) < ClaimedRank(call.trace[j])
           /\ \A i \in DOMAIN call.trace :
                 call.trace[i] = "deepl" /\ call.use_jisho =>
                    \E j \in 1..(i - 1) : call.trace[j] = "jisho"
           /\ \A i \in DOMAIN call.requests : \A j \in DOMAIN call.requests :
                 call.requests[i].service = "deepl"
                    /\ call.requests[j].service = "jisho" => j < i

\* a call that sends its request to DeepL and then one to Jisho
C16_FailingInput ==
    \E k \in DOMAIN tr_log :
        /\ tr_log[k].use_jisho
        /\ Len(tr_log[k].requests) = 2
        /\ tr_log[k].requests[1].service = "deepl"
        /\ tr_log[k].requests[2].service = "jisho"
        /\ AnsweredBy(tr_log[k]) = "jisho"

\* C17: when a call is answered by the static dictionary, Jisho or DeepL,
\* the cache then maps the word to the gloss returned and the modified flag
\* is set, and every later call for the same word returns the same gloss
\* and sends no request.
C17_ResolutionIsCached ==
    \A k \in DOMAIN tr_log :
        AnsweredBy(tr_log[k]) \in {"dictionary", "jisho", "deepl"} =>
            /\ tr_log[k].cached = tr_log[k].ret
            /\ tr_log[k].modified
            /\ tr_log[k].word \in DOMAIN tr_cache
            /\ \A j \in DOMAIN tr_log :
                  j > k /\ tr_log[j].word = tr_log[k].word =>
                     /\ tr_log[j].ret = tr_log[k].ret
                     /\ tr_log[j].requests = <<>>

\* a word resolved by a service, then asked again
C17_Witness ==
    /\ Len(tr_log) = 2
    /\ tr_log[1].word = tr_log[2].word
    /\ AnsweredBy(tr_log[1]) = "jisho"
    /\ AnsweredBy(tr_log[2]) = "cache"
    /\ tr_log[2].ret = tr_log[1].ret
    /\ tr_log[2].requests = <<>>

\* C18: every call returns a string, and the placeholder when no source
\* yields a gloss.
C18_AlwaysAString ==
    \A k \in DOMAIN tr_log :
        /\ tr_log[k].ret.type = "str"
        /\ (AnsweredBy(tr_log[k]) = "placeholder" => tr_log[k].ret = PLACEHOLDER)

\* DeepL answers 200 with a "text" that is a JSON array
C18_FailingInput ==
    \E k \in DOMAIN tr_log :
        /\ AnsweredBy(tr_log[k]) = "deepl"
        /\ tr_log[k].ret.type = "list"

----------------------------------------------------------------------------
(* Properties of analyze_text *)

----------------------------------------------------------------------------
(* Network calls: timeouts and retries *)

\* a later attempt of the same service follows the request
RetriedAfter(requests, i) ==
    \E j \in DOMAIN requests :
        /\ requests[j].service = requests[i].service
        /\ requests[j].attempt = requests[i].attempt + 1

\* the waits double from one retry to the next
GrowingWaits(waits) ==
    \A i \in 1..(Len(waits) - 1) : waits[i + 1] = 2 * waits[i]

\* the requests of one call carry a timeout, a failed request is followed by
\* another attempt unless it is itself the last of a bounded number of
\* retries, and one wait precedes each retry
TimeoutAndBackoff(requests, waits) ==
    /\ \A i \in DOMAIN requests : requests[i].timeout # <<>>
    /\ \A i \in DOMAIN requests :
          requests[i].failed =>
             \/ RetriedAfter(requests, i)
             \/ requests[i].attempt > 1
    /\ \A i \in DOMAIN requests : requests[i].attempt <= MAX_RETRIES + 1
    /\ Len(waits) = Cardinality({ i \in DOMAIN requests : requests[i].attempt > 1 })
    /\ GrowingWaits(waits)

\* C20: every network call (Jisho, DeepL, OpenRouter, Gemini) is issued with
\* a timeout and, when it fails, is retried a bounded number of times with
\* exponentially growing waits before the caller gives up.
C20_TimeoutAndRetry ==
    /\ \A k \in DOMAIN tr_log : TimeoutAndBackoff(tr_log[k].requests, <<>>)
    /\ \A k \in DOMAIN ai_log : TimeoutAndBackoff(ai_log[k].requests, ai_log[k].waits)

\* translate_to_french on an unknown word without DeepL key while the Jisho
\* request fails: one GET, no second attempt, the placeholder is returned
C20_FailingInput ==
    \E k \in DOMAIN tr_log :
        /\ Len(tr_log[k].requests) = 1
        /\ tr_log[k].requests[1].service = "jisho"
        /\ tr_log[k].requests[1].failed
        /\ tr_log[k].requests[1].attempt = 1
        /\ tr_log[k].ret = PLACEHOLDER

----------------------------------------------------------------------------
(* classify_sentence: the range of the result *)

\* C30: for every token list and every vocabulary tiered in N5..N1 or
\* Unknown, classify_sentence returns one of N5..N1, never Unknown; a
\* non-empty vocabulary of Unknown entries only gives N5 whatever the token
\* count.
C30_NeverUnknown ==
    cs_ret.called =>
        /\ cs_ret.level \in LevelSet
        /\ (cs_vocab # <<>> /\ CountAt("Unknown") = Len(cs_vocab)
              => cs_ret.level = "N5")

\* Unknown entries only, with and without the key "jlptLevel", and a token
\* list that the length heuristic would put in N3
C30_Witness ==
    /\ cs_ret.called
    /\ Len(cs_vocab) >= 2
    /\ CountAt("Unknown") = Len(cs_vocab)
    /\ \E i \in DOMAIN cs_vocab : "jlptLevel" \in DOMAIN cs_vocab[i]
    /\ \E i \in DOMAIN cs_vocab : "jlptLevel" \notin DOMAIN cs_vocab[i]
    /\ Len(cs_tokens) > MediumSentence
    /\ cs_ret.level = "N5"

----------------------------------------------------------------------------
(* is_proper_noun: the order of the rules *)

ProperNounIndicators == {KOYUUMEISHI, JINMEI, CHIMEI, SOSHIKIMEI}

\* a sub-tag, the main tag or the raw tag holds one of the four indicators
HasIndicator(token) ==
    \E indicator \in ProperNounIndicators :
        \/ \E k \in DOMAIN token.posDetails : Contains(token.posDetails[k], indicator)
        \/ Contains(token.partOfSpeech, indicator)
        \/ Contains(token.rawPos, indicator)

\* at least 2 characters, each of them katakana or the long-vowel mark, and
\* not one of テレビ, コーヒー, パン
UnlistedKatakana(surface) ==
    /\ Len(surface) >= 2
    /\ \A i \in 1..Len(surface) : surface[i] \in KatakanaChars
    /\ surface \notin { <<"TE_K", "RE", "BI">>, KOOHII, <<"PA", "N_K">> }

C25_FailingInput ==
    \E k \in DOMAIN pn_log :
        /\ pn_log[k].token =
              PnTok(W_WATASHI, POS_MEISHI, <<>>, POS_MEISHI \o <<",">> \o SOSHIKIMEI)
        /\ pn_log[k].ret = FALSE

----------------------------------------------------------------------------
(* detect_patterns: the forms built on て *)

ProgressivePatterns == { P(TEIMASU), P(<<"te", "ru">>), P(TEIRU) }

\* C26: the entry ～て is in the result only if the text contains て and none
\* of ～てもいい, ～てください, ～ています, ～てる, ～ている is; at most one of the
\* three progressive entries is in the result, chosen in the priority
\* ～ています, ～てる, ～ている.
C26_TeFormLast ==
    gpc = "patterns" =>
        /\ (P(TE) \in PatternsOf(detected) =>
              /\ Contains(text, TE)
              /\ PatternsOf(detected)
                    \cap ({ P(TE \o MOII), P(TE \o KUDASAI) } \cup ProgressivePatterns)
                  = {})
        /\ Cardinality(PatternsOf(detected) \cap ProgressivePatterns) <= 1
        /\ (P(<<"te", "ru">>) \in PatternsOf(detected) => ~Contains(text, TEIMASU))
        /\ (P(TEIRU) \in PatternsOf(detected) =>
              /\ ~Contains(text, TEIMASU)
              /\ ~(re_search(TeDe(<<"ru">>), text) /\ ~re_search(TeDe(MASU), text)))

\* a text with ている and no てる: the entry ～ている stands alone of the six
C26_Witness ==
    /\ gpc = "patterns"
    /\ Contains(text, TEIRU)
    /\ P(TEIRU) \in PatternsOf(detected)
    /\ P(TE) \notin PatternsOf(detected)
    /\ P(<<"te", "ru">>) \notin PatternsOf(detected)

----------------------------------------------------------------------------
(* detect_patterns: the contextual excerpts *)

\* the entries that carry an excerpt: <<pattern, the triggers of the rule>>
ExcerptRules ==
    { <<P(TEIMASU), {TEIMASU}>>, <<P(<<"te", "ru">>), TeDe(<<"ru">>)>>,
      <<P(TA), {TA}>>, <<P(NAI), {NAI}>>, <<P(YOUNI), {YOUNI}>>, <<P(TE), {TE}>> }

\* the window around the match t[ms+1..me]: up to 10 characters before it,
\* the match, up to 2 after it, trimmed; the bare match when that is longer
\* than 20 characters
WindowOrMatch(t, ms, me) ==
    LET lo == IF ms - 10 < 0 THEN 0 ELSE ms - 10
        hi == IF me + 2 > Len(t) THEN Len(t) ELSE me + 2
        window == strip(SubSeq(t, lo + 1, hi))
    IN IF Len(window) <= 20 THEN window ELSE SubSeq(t, ms + 1, me)

\* the first match of the rule's excerpt pattern in t: the leftmost start of
\* a run of script characters followed by a trigger, extended as far as it
\* goes; <<ms, me>> with offsets from 0
FirstMatches(t, lits) ==
    { m \in (0..Len(t)) \X (1..Len(t)) :
        /\ \E lit \in lits :
              /\ m[2] - Len(lit) > m[1]
              /\ OccursAt(t, lit, m[2] - Len(lit))
              /\ \A k \in (m[1] + 1)..(m[2] - Len(lit)) : InScriptClass(t[k])
        /\ \A n \in (0..Len(t)) \X (1..Len(t)) :
              (\E lit \in lits :
                  /\ n[2] - Len(lit) > n[1]
                  /\ OccursAt(t, lit, n[2] - Len(lit))
                  /\ \A k \in (n[1] + 1)..(n[2] - Len(lit)) : InScriptClass(t[k]))
              => \/ m[1] < n[1]
                 \/ m[1] = n[1] /\ m[2] >= n[2] }

\* C27: every entry that carries an excerpt of extract_example (～ています,
\* ～てる, ～た, ～ない, ～ように, ～て) has the excerpt taken at the first match
\* of the rule: the trimmed window of up to 10 characters before the match,
\* the match and up to 2 after it when that has at most 20 characters, else
\* the matched substring; the excerpt of an emitted entry is never empty and
\* contains the trigger of the rule.
C27_ExcerptAtFirstMatch ==
    gpc = "patterns" =>
        \A i \in DOMAIN detected : \A r \in ExcerptRules :
            detected[i].pattern = r[1] =>
                /\ detected[i].hasExample
                /\ detected[i].exampleInSentence # <<>>
                /\ re_search(r[2], detected[i].exampleInSentence)
                /\ \E m \in FirstMatches(text, r[2]) :
                      detected[i].exampleInSentence = WindowOrMatch(text, m[1], m[2])

\* the text ています: the entry ～ています is emitted with an empty excerpt
C27_FailingInput ==
    /\ gpc = "patterns"
    /\ text = TEIMASU
    /\ \E i \in DOMAIN detected :
          /\ detected[i].pattern = P(TEIMASU)
          /\ detected[i].exampleInSentence = <<>>

\* the rest of the statement: an excerpt that is not empty is the window (or
\* the match) at the first match and contains the trigger
ExcerptWhenMatched ==
    gpc = "patterns" =>
        \A i \in DOMAIN detected : \A r \in ExcerptRules :
            detected[i].pattern = r[1] /\ detected[i].exampleInSentence # <<>> =>
                /\ re_search(r[2], detected[i].exampleInSentence)
                /\ \E m \in FirstMatches(text, r[2]) :
                      detected[i].exampleInSentence = WindowOrMatch(text, m[1], m[2])

----------------------------------------------------------------------------
(* _call_gemini_api: attempts and waits *)

\* the call of ai_log[k] went to the initialised Gemini model
GeminiCall(k) == ai_log[k].provider = "gemini" /\ ai_log[k].requests # <<>>

\* C28: _call_gemini_api terminates; when every attempt raises it makes
\* exactly MAX_RETRIES + 1 = 3 attempts, sleeps 2 then 4 seconds between
\* them and returns None; an attempt that returns an empty response, an
\* invalid structure or unparseable JSON ends the call at once, without a
\* retry, with None, None and the fallback explanation.
C28_GeminiAttempts ==
    \A k \in DOMAIN ai_log : GeminiCall(k) =>
        LET call == ai_log[k]
            first == call.outcomes[1]
        IN /\ ((\A i \in DOMAIN call.requests : call.requests[i].failed)
                  => /\ Len(call.requests) = 3
                     /\ call.waits = <<2, 4>>
                     /\ call.ret = AiNone)
           /\ (first = "empty"
                  => Len(call.requests) = 1 /\ call.waits = <<>> /\ call.ret = AiNone)
           /\ (first \in {"invalid_structure", "invalid_type"}
                  => Len(call.requests) = 1 /\ call.waits = <<>> /\ call.ret = AiNone)
           /\ (first = "not_json"
                  => Len(call.requests) = 1 /\ call.waits = <<>>
                     /\ call.ret = AiFallback)

\* the first attempt returns JSON on which the validation raises (the text
\* "5"): the call sleeps and asks again
C28_FailingInput ==
    \E k \in DOMAIN ai_log :
        /\ GeminiCall(k)
        /\ ai_log[k].outcomes = <<"invalid_type", "valid">>
        /\ ai_log[k].waits = <<2>>
        /\ ai_log[k].ret = AiData

\* the statement for the outcomes on which the validation does not raise
GeminiAttemptsWhenValidated ==
    \A k \in DOMAIN ai_log : GeminiCall(k) =>
        LET call == ai_log[k]
            first == call.outcomes[1]
        IN /\ ((\A i \in DOMAIN call.requests : call.requests[i].failed)
                  => /\ Len(call.requests) = 3
                     /\ call.waits = <<2, 4>>
                     /\ call.ret = AiNone)
           /\ (first \in {"empty", "invalid_structure"}
                  => Len(call.requests) = 1 /\ call.waits = <<>> /\ call.ret = AiNone)
           /\ (first = "not_json"
                  => Len(call.requests) = 1 /\ call.waits = <<>>
                     /\ call.ret = AiFallback)
           /\ Len(call.requests) <= MAX_RETRIES + 1

----------------------------------------------------------------------------
(* The explanation cache: size, eviction, expiry *)

KeysOf(cache) == { cache[i].key : i \in DOMAIN cache }

\* the keys the last operation removed from the cache
Removed == KeysOf(ai_last.before) \ KeysOf(ai_cache)

\* the keys of cache with the least timestamp
OldestKeys(cache) ==
    { cache[i].key : i \in { j \in DOMAIN cache :
                               \A k \in DOMAIN cache :
                                   cache[j].timestamp <= cache[k].timestamp } }

\* C29: the cache never holds more than its capacity; a _save_to_cache call
\* removes an entry only when the cache is at capacity, and then only the
\* one with the oldest timestamp.
C29_BoundedCache ==
    /\ Len(ai_cache) <= CacheCapacity
    /\ Cardinality(KeysOf(ai_cache)) = Len(ai_cache)
    /\ (ai_last.op = "save" =>
          /\ (Len(ai_last.before) < CacheCapacity => Removed = {})
          /\ Cardinality(Removed) <= 1
          /\ Removed \subseteq OldestKeys(ai_last.before))

\* a save of a new key into a full cache whose entries differ in age: the
\* older one is gone, the newer one and the new one are there
C29_Witness ==
    /\ ai_last.op = "save"
    /\ Len(ai_last.before) = CacheCapacity
    /\ ai_last.key \notin KeysOf(ai_last.before)
    /\ Cardinality(OldestKeys(ai_last.before)) = 1
    /\ Removed = OldestKeys(ai_last.before)
    /\ Len(ai_cache) = CacheCapacity

\* C21: the cache is an LRU cache: the entry a _save_to_cache call removes
\* from a full cache is the least recently used one, so that a hit through
\* _get_from_cache protects the entry it returned from being the next one
\* evicted.
C21_EvictsLeastRecentlyUsed ==
    ai_last.op = "save" /\ Removed # {} => Removed = { ai_last.lru }

\* k1 stored, k2 stored later, k1 returned by a lookup after that, then k3
\* saved into the full cache: k1 is evicted although k2 is the least
\* recently used
C21_FailingInput ==
    /\ ai_last.op = "save"
    /\ ai_last.key = "k3"
    /\ KeysOf(ai_last.before) = {"k1", "k2"}
    /\ ai_last.lru = "k2"
    /\ Removed = {"k1"}

\* the age of the entry of the key of the last operation at the lookup:
\* <<>> when the key was not cached
AgeAtLookup ==
    LET i == IndexOfKey(ai_last.before, ai_last.key)
    IN IF i = 0 THEN <<>> ELSE << ai_last.at - ai_last.before[i].timestamp >>

\* C24: _get_from_cache never returns an entry stored more than 24 hours
\* before the lookup; a lookup that finds an expired entry removes it and
\* reports a miss, and generate_ai_explanation then calls the provider
\* again.
C24_TimeToLive ==
    /\ (ai_last.op \in {"get", "explain"} /\ ~ai_last.asked /\ AiTruthy(ai_last.ret)
          => AgeAtLookup # <<>> /\ AgeAtLookup[1] <= 24)
    /\ (ai_last.op = "get" /\ AgeAtLookup # <<>> /\ AgeAtLookup[1] > 24
          => ai_last.ret = AiNone /\ ai_last.key \notin KeysOf(ai_cache))
    /\ (ai_last.op = "explain" /\ ai_provider # "none"
          /\ AgeAtLookup # <<>> /\ AgeAtLookup[1] > 24
          => /\ ai_last.asked
             /\ \A i \in DOMAIN ai_cache :
                   ai_cache[i].key = ai_last.key => ai_cache[i].timestamp = ai_last.at)

\* generate_ai_explanation finds an entry of 25 hours: the provider is asked
\* and its answer replaces the entry
C24_Witness ==
    /\ ai_last.op = "explain"
    /\ AgeAtLookup = <<25>>
    /\ ai_last.asked
    /\ ai_last.ret = AiData
    /\ \E i \in DOMAIN ai_cache :
          ai_cache[i].key = ai_last.key /\ ai_cache[i].timestamp = ai_last.at

----------------------------------------------------------------------------
(* The loaders of the tables *)

\* the calls of fn in the log, in order
CallsOf(fn) == SelectSeq(ld_log, LAMBDA c : c.fn = fn)

Loaders == {"load_jlpt_data", "load_grammar_patterns"}

\* after the first call of a loader, no call of it opens the file and every
\* call returns the table of the first
LoadedOnce ==
    \A fn \in Loaders :
        \A j \in 2..Len(CallsOf(fn)) :
            /\ ~CallsOf(fn)[j].opened
            /\ CallsOf(fn)[j].ret = CallsOf(fn)[1].ret

\* a step leaves a populated table as it is
TablesKept ==
    /\ (jlpt_vocab # NoTable => jlpt_vocab' = jlpt_vocab)
    /\ (gp_patterns # NoPatterns => gp_patterns' = gp_patterns)

\* C23: the tables behind load_jlpt_data and load_grammar_patterns are
\* populated at most once: whatever the first load met (file present,
\* missing, malformed, holding an empty table), later calls return the same
\* table without reading the file again, and no step changes a table once
\* it is populated.
C23_PopulatedOnce == [](LoadedOnce) /\ [][TablesKept]_vars

\* data/jlpt_vocab.json holds {}: the second call of load_jlpt_data opens
\* the file again
C23_FailingInput ==
    /\ jlpt_file = [status |-> "ok", data |-> NoTable]
    /\ Len(CallsOf("load_jlpt_data")) = 2
    /\ CallsOf("load_jlpt_data")[2].opened

\* what the guards give: once a call has left a non-empty table in the
\* global, no later call opens the file and every later call returns it
LoadedOnceWhenNonEmpty ==
    \A fn \in Loaders :
        \A i \in 1..Len(CallsOf(fn)) : \A j \in (i + 1)..Len(CallsOf(fn)) :
            CallsOf(fn)[i].cached # << >> =>
                /\ ~CallsOf(fn)[j].opened
                /\ CallsOf(fn)[j].ret = CallsOf(fn)[i].cached

----------------------------------------------------------------------------
(* Two interleaved calls of translate_to_french *)

BothReturned == \A p \in RaceCalls : rc_proc[p].pc = "done"

\* the entries of the other words: those of the cache file, which the
\* cache holds once it is loaded
OtherEntries == load_cache(NoTable, tr_cache_file)

OthersKept ==
    \A w \in DOMAIN OtherEntries \ {RaceWord} :
        w \in DOMAIN tr_cache /\ tr_cache[w] = OtherEntries[w]

\* C22: two interleaved translate_to_french calls for a word in neither the
\* priority table nor the cache return the same gloss, whatever the
\* interleaving and the answers of the services, and the cache ends holding
\* that gloss for the word, with every entry of another word as it was.
C22_IdempotentRace ==
    BothReturned =>
        /\ rc_proc[1].ret = rc_proc[2].ret
        /\ (rc_proc[1].ret # PLACEHOLDER =>
              RaceWord \in DOMAIN tr_cache /\ tr_cache[RaceWord] = rc_proc[1].ret)
        /\ OthersKept

\* DeepL answers the first call and times out for the second, which Jisho
\* answers: two glosses returned, the later write in the cache
C22_FailingInput ==
    /\ BothReturned
    /\ rc_proc[1].deepl = "200" /\ rc_proc[1].ret = Str(<<"etude">>)
    /\ rc_proc[2].deepl = "timeout" /\ rc_proc[2].jisho = "200"
    /\ rc_proc[2].ret = Str(<<"study", " (EN)">>)
    /\ tr_cache[RaceWord] = rc_proc[2].ret

\* the answers the two calls got from a service both asked are the same
SameAnswers ==
    /\ (rc_proc[1].deepl # "none" /\ rc_proc[2].deepl # "none"
          => rc_proc[1].deepl = rc_proc[2].deepl)
    /\ (rc_proc[1].jisho # "none" /\ rc_proc[2].jisho # "none"
          => rc_proc[1].jisho = rc_proc[2].jisho)

\* what the statements give: the entries of the other words are kept; the
\* cache holds nothing for the word but a value one of the calls returned;
\* and when the services answer both calls alike, the calls return the same
\* value and the cache holds it unless it is the placeholder
RaceWhenAnswersAgree ==
    /\ (BothReturned => OthersKept)
    /\ (BothReturned /\ RaceWord \in DOMAIN tr_cache
          => tr_cache[RaceWord] \in { rc_proc[p].ret : p \in RaceCalls })
    /\ (BothReturned /\ SameAnswers =>
          /\ rc_proc[1].ret = rc_proc[2].ret
          /\ (rc_proc[1].ret # PLACEHOLDER =>
                RaceWord \in DOMAIN tr_cache /\ tr_cache[RaceWord] = rc_proc[1].ret))

====
